---- MODULE Spec2Model ----
(***************************************************************************)
(* Verification model of the coordinate-transform-and-resampling core of   *)
(* RPy-alphablend:                                                         *)
(*   - AECgrapher.py: MainWindow.patient_coord_to_scout_pixel              *)
(*   - HeatMapBlenderTool.py: MainWindow.get_intensity_array, its cache    *)
(*     and the handlers that redraw from it                                *)
(*                                                                         *)
(* Floating point values are modelled as exact rationals <<n, d>> with     *)
(* d > 0 in lowest terms; the IEEE specials are the pairs with d = 0:      *)
(* <<0, 0>> is NaN, <<1, 0>> is +inf and <<-1, 0>> is -inf.                *)
(***************************************************************************)
EXTENDS Integers, Sequences, FiniteSets, TLC

----------------------------------------------------------------------------
(* Bounds *)

MaxCoord == 5

\* the table is kept within MaxRows x MaxCols
MaxRows == 2

MaxCols == 2

\* cell edits typed by the user in one run
MaxEdits == 1

\* largest side of the full-size array of a composite
MaxFull == 3

\* nested valueChanged -> update_colormap_scale calls followed before the
\* recursion is given up as a RecursionError
MaxNest == 2

\* largest width and height of the images handed to the plot canvas
MaxSide == 3

\* the most rows and columns of the table whose shape drives the grid spin
\* boxes; the columns pass the maximum of the spin boxes
MaxGridRows == 2
MaxGridCols == 201

\* the most rows the measurements list of the series comparison tool grows to
MaxMeasurements == 4

\* the most overlays tree selections pile up on one scout
MaxOverlays == 3

\* the largest canvas coordinate of a click in the MRI SNR tool
MaxClick == 4

----------------------------------------------------------------------------
(* Exact arithmetic on float values *)

Abs(x) == IF x < 0 THEN -x ELSE x

Sign(x) == IF x < 0 THEN -1 ELSE IF x > 0 THEN 1 ELSE 0

RECURSIVE GCD(_, _)
GCD(a, b) == IF b = 0 THEN a ELSE GCD(b, a % b)

\* the float with value n/d, d > 0
Rat(n, d) ==
    LET g == GCD(Abs(n), d)
    IN  <<n \div g, d \div g>>

NaN == <<0, 0>>

IsFinite(x) == x[2] > 0

IsNaN(x) == x = NaN

\* numpy float64 true division: x / 0 is +-inf (nan for 0 / 0) with a
\* RuntimeWarning, never an exception
FDiv(x, y) ==
    IF ~IsFinite(x) \/ ~IsFinite(y) THEN NaN
    ELSE IF y[1] = 0 THEN <<Sign(x[1]), 0>>
    ELSE Rat(x[1] * y[2] * Sign(y[1]), x[2] * Abs(y[1]))

\* np.dot of two 3-vectors of integral floats
Dot(a, b) == a[1] * b[1] + a[2] * b[2] + a[3] * b[3]

VSub(a, b) == <<a[1] - b[1], a[2] - b[2], a[3] - b[3]>>

RMul(x, y) == Rat(x[1] * y[1], x[2] * y[2])

\* math.floor / np.ceil of a finite float, as integers
Floor(x) == x[1] \div x[2]

Ceil(x) == -((-x[1]) \div x[2])

\* Python round(): to the nearest integer, ties to the even one
Round(x) ==
    LET f    == Floor(x)
        twice == 2 * (x[1] - f * x[2])
    IN  IF twice < x[2] THEN f
        ELSE IF twice > x[2] THEN f + 1
        ELSE IF f % 2 = 0 THEN f ELSE f + 1

\* F(x), with x evaluated once
Let(x, F(_)) == CHOOSE r \in {F(y) : y \in {x}} : TRUE

Max(a, b) == IF a >= b THEN a ELSE b

Min(a, b) == IF a <= b THEN a ELSE b

\* == on two floats: a NaN equals nothing, itself included
FloatEq(x, y) == x = y /\ ~IsNaN(x)

----------------------------------------------------------------------------
(* AECgrapher.py: world point -> scout pixel *)

\* Python None; an optional record d is held as <<d>>
None == <<>>

\* components of the patient positions handed to the mapper
CoordVals == {0, 3, MaxCoord}

PointSet == {<<x, y, z>> : x \in CoordVals, y \in CoordVals, z \in CoordVals}

\* ImagePositionPatient of the scout
OriginSet == {<<0, 0, 0>>, <<3, 0, MaxCoord>>}

\* direction cosines found in ImageOrientationPatient: axis aligned unit
\* vectors, a zero-length vector and a vector that is not unit length
DirSet == {<<1, 0, 0>>, <<0, 1, 0>>, <<0, 0, -1>>, <<0, 0, 0>>, <<1, 1, 0>>}

\* PixelSpacing values, a zero among them
SpacingSet == {Rat(0, 1), Rat(1, 1), Rat(2, 1)}

\* the scout datasets a folder scan can deliver
ScoutSet ==
    [ImageOrientationPatient : {<<r[1], r[2], r[3], c[1], c[2], c[3]>> :
                                    r \in DirSet, c \in DirSet},
     ImagePositionPatient : OriginSet,
     PixelSpacing : SpacingSet \X SpacingSet]

patient_coord_to_scout_pixel_swapped_spacing(pos, dcm) ==
    LET img_ori == dcm.ImageOrientationPatient
        row_cos == <<img_ori[1], img_ori[2], img_ori[3]>>
        col_cos == <<img_ori[4], img_ori[5], img_ori[6]>>
        v       == VSub(pos, dcm.ImagePositionPatient)
    IN  <<FDiv(Rat(Dot(v, col_cos), 1), dcm.PixelSpacing[1]),
          FDiv(Rat(Dot(v, row_cos), 1), dcm.PixelSpacing[2])>>

patient_coord_to_scout_pixel_no_origin(pos, dcm) ==
    LET img_ori == dcm.ImageOrientationPatient
        row_cos == <<img_ori[1], img_ori[2], img_ori[3]>>
        col_cos == <<img_ori[4], img_ori[5], img_ori[6]>>
        v       == pos
    IN  <<FDiv(Rat(Dot(v, col_cos), 1), dcm.PixelSpacing[2]),
          FDiv(Rat(Dot(v, row_cos), 1), dcm.PixelSpacing[1])>>

\* returns (col_px, row_px); spacing[0] is PixelSpacing[1] here (1-based)
patient_coord_to_scout_pixel(pos, dcm) ==
    LET img_ori == dcm.ImageOrientationPatient
        row_cos == <<img_ori[1], img_ori[2], img_ori[3]>>
        col_cos == <<img_ori[4], img_ori[5], img_ori[6]>>
        origin  == dcm.ImagePositionPatient
        spacing == dcm.PixelSpacing
        v       == VSub(pos, origin)
        col_px  == FDiv(Rat(Dot(v, col_cos), 1), spacing[2])
        row_px  == FDiv(Rat(Dot(v, row_cos), 1), spacing[1])
    IN  <<col_px, row_px>>

----------------------------------------------------------------------------
(* HeatMapBlenderTool.py: the table, its cells and the files behind it *)

\* table_widget.item(r, c) is None
NoItem == "NoItem"

\* cell texts float() accepts
NumTexts == {"0", "10", "20", "30", "7", "0.0", "1.0", "7.0", "10.0", "30.0", "nan"}

\* float(text) of a text in NumTexts
FloatOf(t) ==
    CASE t = "0"   -> Rat(0, 1)
      [] t = "10"  -> Rat(10, 1)
      [] t = "20"  -> Rat(20, 1)
      [] t = "30"  -> Rat(30, 1)
      [] t = "7"   -> Rat(7, 1)
      [] t = "0.0" -> Rat(0, 1)
      [] t = "1.0" -> Rat(1, 1)
      [] t = "7.0" -> Rat(7, 1)
      [] t = "10.0" -> Rat(10, 1)
      [] t = "30.0" -> Rat(30, 1)
      [] t = "nan" -> NaN

\* str(x) of a float: "nan", or the integral value with ".0"
StrOfFloat(x) == IF IsNaN(x) THEN "nan" ELSE ToString(x[1]) \o ".0"

\* what the user can type into a cell
EditTexts == {"", "7", "nan", "x"}

\* df.values of the files pd.read_csv can deliver, already through str():
\* an integer grid, a row with a missing cell (a float column with nan) and
\* a file whose only cell is text; <<>> is a file pandas rejects
CsvFiles ==
    { << <<"0", "10">>, <<"20", "30">> >>,
      << <<"1.0", "nan">> >>,
      << <<"x">> >>,
      <<>> }

\* clipboard texts, already split at newlines and tabs: a ragged block and a
\* block with a cell that is not a number
Clipboards ==
    { << <<"7", "10">>, <<"30">> >>,
      << <<"x", "nan">> >> }

\* QPixmap(file_name) sizes as <<width, height>> of the image files offered
ImageSizes == {<<1, 1>>, <<3, 2>>, <<4, 4>>}

\* QTableWidget: items[r][c] for r in 1..rows, c in 1..cols
EmptyTable == [rows |-> 0, cols |-> 0, items |-> <<>>]

\* setRowCount / setColumnCount: cells in range keep their items
Resize(t, rows, cols) ==
    [rows |-> rows, cols |-> cols,
     items |-> [r \in 1..rows |-> [c \in 1..cols |->
                  IF r <= t.rows /\ c <= t.cols THEN t.items[r][c] ELSE NoItem]]]

\* setItem(r, c, QTableWidgetItem(text))
SetItem(t, r, c, text) ==
    [t EXCEPT !.items[r][c] = text]

\* setItem for every cell of data, row by row (rows may be ragged)
RECURSIVE SetItems(_, _, _)
SetItems(t, data, r) ==
    IF r > Len(data) THEN t
    ELSE LET row == data[r]
             tr  == [t EXCEPT !.items[r] =
                        [c \in 1..t.cols |->
                            IF c <= Len(row) THEN row[c] ELSE t.items[r][c]]]
         IN  SetItems(tr, data, r + 1)

RECURSIVE MaxLen(_)
MaxLen(data) ==
    IF data = <<>> THEN 0 ELSE Max(Len(Head(data)), MaxLen(Tail(data)))

----------------------------------------------------------------------------
(* get_intensity_array *)

\* float(item.text()) raises ValueError
CellRaises(item) == item # NoItem /\ item # "" /\ item \notin NumTexts

\* float(item.text()) if item and item.text() else 0.0
CellValue(item) ==
    IF item = NoItem \/ item = "" THEN Rat(0, 1) ELSE FloatOf(item)

TableRaises(t) ==
    \E r \in 1..t.rows : \E c \in 1..t.cols : CellRaises(t.items[r][c])

\* current_data: the cells as a list of lists of floats
CurrentData(t) ==
    [r \in 1..t.rows |-> [c \in 1..t.cols |-> CellValue(t.items[r][c])]]

\* == on two lists of lists of floats built afresh (no shared objects)
ListEq(a, b) ==
    /\ Len(a) = Len(b)
    /\ \A r \in 1..Len(a) :
        /\ Len(a[r]) = Len(b[r])
        /\ \A c \in 1..Len(a[r]) : FloatEq(a[r][c], b[r][c])

Shape(arr) == IF arr = <<>> THEN <<0, 0>> ELSE <<Len(arr), Len(arr[1])>>

ZoomCoordNoEnd(i, n, out) == <<i * n, out>>

\* scipy.ndimage.zoom(arr, (zoom_y, zoom_x), order=1): the output has
\* round(n * zoom) samples per axis; output sample i sits at the input
\* coordinate i * (n - 1) / (out - 1), here <<numerator, denominator>>
ZoomCoord(i, n, out) == IF out > 1 THEN <<i * (n - 1), out - 1>> ELSE <<0, 1>>

\* the weighted sum wa*a + wb*b + wc*c + wd*d over the common denominator den
\* of the weights; a NaN in the 2 x 2 support makes the sample NaN
Blend(a, b, c, d, wa, wb, wc, wd, den) ==
    IF IsNaN(a) \/ IsNaN(b) \/ IsNaN(c) \/ IsNaN(d) THEN NaN
    ELSE Rat(wa * a[1] * b[2] * c[2] * d[2] + wb * b[1] * a[2] * c[2] * d[2]
             + wc * c[1] * a[2] * b[2] * d[2] + wd * d[1] * a[2] * b[2] * c[2],
             den * a[2] * b[2] * c[2] * d[2])

Zoom(arr, zoom_y, zoom_x) ==
    LET ih == Len(arr)
        iw == Len(arr[1])
        oh == Round(RMul(Rat(ih, 1), zoom_y))
        ow == Round(RMul(Rat(iw, 1), zoom_x))
    IN  [i \in 1..oh |-> [j \in 1..ow |->
            LET y  == ZoomCoord(i - 1, ih, oh)
                x  == ZoomCoord(j - 1, iw, ow)
                y0 == y[1] \div y[2]
                x0 == x[1] \div x[2]
                y1 == Min(y0 + 1, ih - 1)
                x1 == Min(x0 + 1, iw - 1)
                ty == y[1] - y0 * y[2]
                tx == x[1] - x0 * x[2]
            IN  Blend(arr[y0 + 1][x0 + 1], arr[y0 + 1][x1 + 1],
                      arr[y1 + 1][x0 + 1], arr[y1 + 1][x1 + 1],
                      (y[2] - ty) * (x[2] - tx), (y[2] - ty) * tx,
                      ty * (x[2] - tx), ty * tx, y[2] * x[2])]]

RepeatTiled(arr, rep_y, rep_x) ==
    [i \in 1..(Len(arr) * rep_y) |-> [j \in 1..(Len(arr[1]) * rep_x) |->
        arr[((i - 1) % Len(arr)) + 1][((j - 1) % Len(arr[1])) + 1]]]

\* np.repeat(np.repeat(arr, rep_y, axis=0), rep_x, axis=1)
Repeat(arr, rep_y, rep_x) ==
    [i \in 1..(Len(arr) * rep_y) |-> [j \in 1..(Len(arr[1]) * rep_x) |->
        arr[((i - 1) \div rep_y) + 1][((j - 1) \div rep_x) + 1]]]

\* arr[:h, :w]
Crop(arr, h, w) ==
    [i \in 1..Min(h, Len(arr)) |-> [j \in 1..Min(w, Len(arr[1])) |-> arr[i][j]]]

FallbackNoCrop(arr, target_height, target_width, zoom_y, zoom_x) ==
    LET rep_y == Max(1, Ceil(zoom_y))
        rep_x == Max(1, Ceil(zoom_x))
    IN  Repeat(arr, rep_y, rep_x)

\* the except branch: nearest-neighbour replication, cropped to the target
Fallback(arr, target_height, target_width, zoom_y, zoom_x) ==
    LET rep_y == Max(1, Ceil(zoom_y))
        rep_x == Max(1, Ceil(zoom_x))
        arr_resized == Repeat(arr, rep_y, rep_x)
    IN  Crop(arr_resized, target_height, target_width)

\* the array computed on a cache miss; zoomFails: zoom raises in this process
Resample(arr, pixmap, zoomFails) ==
    IF pixmap # None
    THEN LET target_height == Max(1, pixmap[2])
             target_width  == Max(1, pixmap[1])
             zoom_y == Rat(target_height, Len(arr))
             zoom_x == Rat(target_width, Len(arr[1]))
         IN  IF zoomFails
             THEN Fallback(arr, target_height, target_width, zoom_y, zoom_x)
             ELSE Zoom(arr, zoom_y, zoom_x)
    ELSE arr

\* the test that lets get_intensity_array return the cached array
CacheHit(cache, current_data, pixmap_size) ==
    /\ cache.cached_intensity_array # None
    /\ cache.last_csv_data # None
    /\ ListEq(cache.last_csv_data[1], current_data)
    /\ cache.last_pixmap_size = pixmap_size

CachedResultLastData(cache) == cache.last_csv_data[1]

\* return self.cached_intensity_array
CachedResult(cache) == cache.cached_intensity_array

TableEmptyRowsOnly(t) == t.rows = 0

\* rows == 0 or cols == 0
TableEmpty(t) == t.rows = 0 \/ t.cols = 0

InvalidateCacheKeepsData(cache) ==
    [cache EXCEPT !.cached_intensity_array = None, !.last_csv_shape = None]

InvalidateCacheKeepsArray(cache) ==
    [cache EXCEPT !.last_csv_shape = None]

\* invalidate_cache
InvalidateCache(cache) ==
    [cached_intensity_array |-> None, last_csv_data |-> None,
     last_csv_shape |-> None, last_pixmap_size |-> None]

\* get_intensity_array on table t, pixmap p and the cache fields: the cache
\* fields after the call, the value returned, the exception raised ("" for
\* none) and the number of zoom calls made
GetIntensityArray(t, p, cache, zoomFails) ==
    IF TableEmpty(t)
    THEN [cache |-> [cache EXCEPT !.cached_intensity_array = None,
                                  !.last_csv_data = << <<>> >>,
                                  !.last_pixmap_size = p],
          ret |-> None, raised |-> "", zooms |-> 0]
    ELSE IF TableRaises(t)
    THEN [cache |-> cache, ret |-> None, raised |-> "ValueError", zooms |-> 0]
    ELSE Let(CurrentData(t), LAMBDA current_data :
             IF CacheHit(cache, current_data, p)
             THEN [cache |-> cache, ret |-> CachedResult(cache),
                   raised |-> "", zooms |-> 0]
             ELSE Let(Resample(current_data, p, zoomFails), LAMBDA arr :
                      [cache |-> [cache EXCEPT !.cached_intensity_array = arr,
                                               !.last_csv_data = <<current_data>>,
                                               !.last_pixmap_size = p],
                       ret |-> arr, raised |-> "",
                       zooms |-> IF p # None THEN 1 ELSE 0]))

----------------------------------------------------------------------------
(* The drawing calls, as far as they can fail *)

\* DraggableCanvas.draw_heatmap: imshow(None) raises TypeError
DrawHeatmapRaises(intens) == IF intens = None THEN "TypeError" ELSE ""

\* contour / contourf need an array of at least 2 x 2
ContourRaises(intens) ==
    IF Shape(intens)[1] < 2 \/ Shape(intens)[2] < 2 THEN "TypeError" ELSE ""

\* DraggableCanvas.draw_contours: None has no shape (AttributeError)
DrawContoursRaises(intens) ==
    IF intens = None THEN "AttributeError" ELSE ContourRaises(intens)

\* texts of the scale, highlight and custom level line edits
ScaleTexts == {"1.0", "x"}

HighlightTexts == {"1, 6, 15", "", "x"}

LevelTexts == {"", "10,20"}

\* values the user types into vmin_spin or vmax_spin
SpinInputs == {Rat(7, 1)}

\* float(text) raises ValueError
ScaleRaises(text) == text \notin {"1.0"}

----------------------------------------------------------------------------
(* np.min / np.max of the intensity array and the two colour range spin
   boxes, vmin_spin and vmax_spin *)

\* x < y for finite floats
RLess(x, y) == x[1] * y[2] < y[1] * x[2]

\* the cells of a 2-D array
Cells(arr) == {arr[r][c] : r \in 1..Len(arr), c \in 1..Len(arr[1])}

\* np.min: NaN as soon as one cell is NaN
ArrMin(arr) ==
    IF \E x \in Cells(arr) : IsNaN(x) THEN NaN
    ELSE CHOOSE m \in Cells(arr) : \A x \in Cells(arr) : ~RLess(x, m)

\* np.max: NaN as soon as one cell is NaN
ArrMax(arr) ==
    IF \E x \in Cells(arr) : IsNaN(x) THEN NaN
    ELSE CHOOSE m \in Cells(arr) : \A x \in Cells(arr) : ~RLess(m, x)

\* a QDoubleSpinBox after construction: value 0.0 in the range 0.0 .. 99.99
NewSpin == [value |-> Rat(0, 1), lo |-> Rat(0, 1), hi |-> Rat(9999, 100)]

\* the values QAbstractSpinBox's bound() can return for v: v clamped to the
\* range; with a NaN among v, lo and hi the comparisons decide nothing the
\* source shows, and the result is one of v, lo and hi
Bound(spin, v) ==
    IF IsNaN(v) \/ IsNaN(spin.lo) \/ IsNaN(spin.hi) THEN {v, spin.lo, spin.hi}
    ELSE IF RLess(v, spin.lo) THEN {spin.lo}
    ELSE IF RLess(spin.hi, v) THEN {spin.hi}
    ELSE {v}

\* whether valueChanged is emitted for old -> new (old != new; between two
\* NaNs either answer)
Emits(old, new) ==
    IF IsNaN(old) /\ IsNaN(new) THEN BOOLEAN ELSE {old # new}

\* QDoubleSpinBox rounds what it is given to its decimals, 3 here
SpinRound(x) ==
    IF ~IsFinite(x) THEN x ELSE Rat(Round(RMul(x, Rat(1000, 1))), 1000)

\* QDoubleSpinBox.setValue(v): the spin boxes it can leave, each with
\* whether valueChanged was emitted
SetValue(spin, v) ==
    {[spin |-> [spin EXCEPT !.value = nv], emitted |-> em] :
        <<nv, em>> \in UNION {{nv2} \X Emits(spin.value, nv2) :
                                nv2 \in Bound(spin, SpinRound(v))}}

\* QDoubleSpinBox.setRange(mn, mx): minimum = mn, maximum = max(mn, mx), then
\* the value is bounded to the new range
SetRange(spin, mn, mx) ==
    LET lo == SpinRound(mn)
        hi == SpinRound(mx)
        ranged == [spin EXCEPT !.lo = lo,
                               !.hi = IF IsNaN(lo) \/ IsNaN(hi) THEN hi
                                      ELSE IF RLess(lo, hi) THEN hi ELSE lo]
    IN  {[spin |-> [ranged EXCEPT !.value = nv], emitted |-> em] :
            <<nv, em>> \in UNION {{nv2} \X (IF nv2 = spin.value /\ ~IsNaN(nv2)
                                            THEN {FALSE}
                                            ELSE Emits(spin.value, nv2)) :
                                    nv2 \in Bound(ranged, spin.value)}}

----------------------------------------------------------------------------
(* The main window of the heat map tool *)

VARIABLES
    scout_dcm,      \* ser_scout.instances[0], None before a scout is selected
    patient_pos,    \* argument of the last patient_coord_to_scout_pixel call
    px_ret,         \* what that call returned, None before any call
    px_raised,      \* TRUE when that call ended in an exception
    slice_series,   \* series.instances of the last draw_slice_position_lines call
    slice_lines,    \* the begin/end annotations that call added to the view
    slice_raised    \* the exception that left that call, "" for none

geomVars == <<scout_dcm, patient_pos, px_ret, px_raised, slice_series,
              slice_lines, slice_raised>>

VARIABLES
    table,              \* table_widget
    current_pixmap,     \* None or <<width, height>>
    cache,              \* cached_intensity_array, last_csv_data,
                        \* last_csv_shape, last_pixmap_size
    current_vis_mode,   \* _current_vis_mode
    zoom_fails,         \* scipy's zoom raises in this process
    edits,              \* cell edits typed so far
    spins,              \* vmin_spin and vmax_spin: value and range
    last,               \* the handler that ran last and how it ended
    ncalls              \* get_intensity_array calls that returned since the
                        \* table or the image last changed, counted up to 2

heatVars == <<table, current_pixmap, cache, current_vis_mode, zoom_fails,
              edits, spins, last, ncalls>>

VARIABLES
    comp_args,      \* [grid, fullSize, cropRect] of the last composite call
    comp_ret,       \* the CompositeField it returned, None when it raised
    comp_raised,    \* "" or the error it raised
    comp_written    \* array cells it wrote into the full-size array

compVars == <<comp_args, comp_ret, comp_raised, comp_written>>

VARIABLES
    canvas          \* what the last draw_heatmap / draw_contours call laid
                    \* out on the plot canvas, None before any call

drawVars == <<canvas>>

VARIABLES
    grid_shape,     \* rowCount and columnCount of the data table
    grid_nx_spin,   \* value of the "Columns" spin box of the grid tab
    grid_ny_spin    \* value of the "Rows" spin box of the grid tab

gridVars == <<grid_shape, grid_nx_spin, grid_ny_spin>>

VARIABLES
    dicom_series1,  \* the datasets of series 1 in InstanceNumber order
    dicom_series2,  \* the datasets of series 2
    series_label1,
    series_label2,
    current_slice1,
    current_slice2,
    slider1,        \* value and maximum of the QSlider of series 1
    slider2,
    measurements,   \* the rows save_results_to_list appended
    analyze_raised  \* "" or the exception that left the last handler of
                    \* the series comparison tool

seriesVars == <<dicom_series1, dicom_series2, series_label1, series_label2,
                current_slice1, current_slice2, slider1, slider2,
                measurements, analyze_raised>>

\* the state of everything but the AEC mapper, the heat map window and the
\* composite builder
VARIABLES
    scanner,          \* None or the studies of the scanned folder
    tree,             \* the items of the tree widget, top to bottom
    ser_scout,
    ser_axial,
    overlays,         \* the overlay items, each with its Z-value
    selected_overlay,
    view_lines,       \* number of InfiniteLine items in the scout view
    aec_raised        \* "" or the exception that left the last handler of
                      \* the AEC viewer

aecVars == <<scanner, tree, ser_scout, ser_axial, overlays, selected_overlay,
             view_lines, aec_raised>>

VARIABLES
    image_data,       \* None or the shape (rows, columns) of the pixel array
    seed,             \* None or the (row, column) of the seed
    click_bound,      \* whether <Button-1> of the canvas is bound to on_click
    region_seed       \* None or the seed the last region growing started from

mriVars == <<image_data, seed, click_bound, region_seed>>

toolVars == <<drawVars, gridVars, seriesVars, aecVars, mriVars>>

\* how a handler ended: cache and mode after it, the last value
\* get_intensity_array returned to it, the exception that left it ("" for
\* none), the zoom calls and returned get_intensity_array calls it made, and
\* what it put on a canvas; spins: the spin boxes after it; range: the
\* <<vmin, vmax>> show_heatmap or update_colormap_scale drew with; data: the
\* <<np.min, np.max>> it computed (None when it did neither)
End(c, vis, ret, raised, zooms, calls, drew) ==
    [cache |-> c, vis |-> vis, ret |-> ret, raised |-> raised,
     zooms |-> zooms, calls |-> calls, drew |-> drew, spins |-> spins,
     range |-> None, data |-> None]

\* not self.current_pixmap or self.table_widget.rowCount() == 0
NotReady(t, p) == p = None \/ t.rows = 0

\* update_intensity_preview
UpdateIntensityPreviewEnd(t, p, c, vis, zf) ==
    Let(GetIntensityArray(t, p, c, zf), LAMBDA g :
        IF g.raised # ""
        THEN End(g.cache, vis, None, g.raised, 0, 0, "none")
        ELSE End(g.cache, vis, g.ret, "", g.zooms, 1,
                 IF g.ret = None THEN "nodata" ELSE "preview"))

\* np.linspace(vmin, vmax, n) as contour levels: contourf raises ValueError
\* unless the levels increase
SpinLevelsRaise(sp) ==
    IF IsNaN(sp.vmin.value) \/ IsNaN(sp.vmax.value) THEN ""
    ELSE IF RLess(sp.vmin.value, sp.vmax.value) THEN ""
    ELSE "ValueError"

\* draw_contours with levels taken from the spin boxes
ContourBySpinsRaises(intens, sp) ==
    IF DrawContoursRaises(intens) # "" THEN DrawContoursRaises(intens)
    ELSE SpinLevelsRaise(sp)

\* the draw of update_colormap_scale and apply_units_and_scale, by mode
DrawByModeRaises(vis, intens, sp) ==
    IF vis = "contour" THEN ContourBySpinsRaises(intens, sp)
    ELSE DrawHeatmapRaises(intens)

\* how a stretch of a handler ended: the spin boxes, the exception that left
\* a slot, the get_intensity_array and zoom calls of nested slots, and the
\* last draw with its colour range
Stretch(sp, raised, zooms, calls, range, drew) ==
    [spins |-> sp, raised |-> raised, zooms |-> zooms, calls |-> calls,
     range |-> range, drew |-> drew]

\* b after a: counts add up, the later draw wins
Then(a, b) ==
    [b EXCEPT !.zooms = a.zooms + b.zooms, !.calls = a.calls + b.calls,
              !.range = IF b.drew = "none" THEN a.range ELSE b.range,
              !.drew = IF b.drew = "none" THEN a.drew ELSE b.drew]

\* the body of update_colormap_scale once get_intensity_array returned arr:
\* both setRange calls, each followed by the slot valueChanged runs when the
\* value was bounded, then the draw; nz: zoom calls of one further
\* get_intensity_array call
RECURSIVE ScaleBody(_, _, _, _, _)
Nested(arr, vis, sp, emitted, nz, depth) ==
    IF ~emitted THEN {Stretch(sp, "", 0, 0, None, "none")}
    ELSE IF depth >= MaxNest
    THEN {Stretch(sp, "RecursionError", 0, 0, None, "none")}
    ELSE {Then(Stretch(sp, "", nz, 1, None, "none"), o) :
            o \in ScaleBody(arr, vis, sp, nz, depth + 1)}

ScaleDraw(arr, vis, a) ==
    IF a.raised # "" THEN a
    ELSE IF DrawByModeRaises(vis, arr, a.spins) # ""
    THEN [a EXCEPT !.raised = DrawByModeRaises(vis, arr, a.spins),
                   !.range = None, !.drew = "none"]
    ELSE [a EXCEPT !.range = <<a.spins.vmin.value, a.spins.vmax.value>>,
                   !.drew = IF vis = "contour" THEN "contour" ELSE "heatmap"]

ScaleBody(arr, vis, sp, nz, depth) ==
    UNION {UNION {IF a.raised # "" THEN {a}
                  ELSE UNION {{ScaleDraw(arr, vis, Then(a, b)) :
                                  b \in Nested(arr, vis,
                                               [a.spins EXCEPT !.vmax = r2.spin],
                                               r2.emitted, nz, depth)} :
                              r2 \in SetRange(a.spins.vmax, ArrMin(arr),
                                              ArrMax(arr))} :
                  a \in Nested(arr, vis, [sp EXCEPT !.vmin = r1.spin],
                               r1.emitted, nz, depth)} :
           r1 \in SetRange(sp.vmin, ArrMin(arr), ArrMax(arr))}

\* show_heatmap from vmin_spin.setValue(np.min(intens)) on: both setValue
\* calls with the slots they trigger, then draw_heatmap
HeatmapDraw(a) ==
    IF a.raised # "" THEN a
    ELSE [a EXCEPT !.range = <<a.spins.vmin.value, a.spins.vmax.value>>,
                   !.drew = "heatmap"]

HeatmapScale(arr, vis, sp, nz) ==
    UNION {UNION {IF a.raised # "" THEN {a}
                  ELSE UNION {{HeatmapDraw(Then(a, b)) :
                                  b \in Nested(arr, vis,
                                               [a.spins EXCEPT !.vmax = r2.spin],
                                               r2.emitted, nz, 0)} :
                              r2 \in SetValue(a.spins.vmax, ArrMax(arr))} :
                  a \in Nested(arr, vis, [sp EXCEPT !.vmin = r1.spin],
                               r1.emitted, nz, 0)} :
           r1 \in SetValue(sp.vmin, ArrMin(arr))}

\* a handler that got g from get_intensity_array and then ran the stretch o
Scaled(g, vis, o) ==
    [cache |-> g.cache, vis |-> vis, ret |-> g.ret, raised |-> o.raised,
     zooms |-> g.zooms + o.zooms, calls |-> 1 + o.calls, drew |-> o.drew,
     spins |-> o.spins, range |-> o.range,
     data |-> <<ArrMin(g.ret), ArrMax(g.ret)>>]

\* zoom calls of one more get_intensity_array call on the cache c
NestedZooms(t, p, c, zf) == GetIntensityArray(t, p, c, zf).zooms

\* show_heatmap: every exception of its own is caught and reported in a
\* dialog; the ways it can end
ShowHeatmapEnd(t, p, c, vis, zf, scale) ==
    IF NotReady(t, p) THEN {End(c, vis, None, "", 0, 0, "none")}
    ELSE Let(GetIntensityArray(t, p, c, zf), LAMBDA g :
             IF g.raised # "" THEN {End(g.cache, vis, None, "", 0, 0, "none")}
             ELSE IF g.ret = None
             THEN {End(g.cache, vis, None, "", g.zooms, 1, "none")}
             ELSE IF scale # "" /\ ScaleRaises(scale)
             THEN {End(g.cache, vis, g.ret, "", g.zooms, 1, "none")}
             ELSE {Scaled(g, vis, o) :
                     o \in HeatmapScale(g.ret, vis, spins,
                                        NestedZooms(t, p, g.cache, zf))})

\* show_contours: every exception is caught and reported in a dialog
ShowContoursEnd(t, p, c, vis, zf, scale) ==
    IF NotReady(t, p) THEN End(c, vis, None, "", 0, 0, "none")
    ELSE Let(GetIntensityArray(t, p, c, zf), LAMBDA g :
             IF g.raised # "" THEN End(g.cache, vis, None, "", 0, 0, "none")
             ELSE IF g.ret = None
             THEN End(g.cache, vis, None, "", g.zooms, 1, "none")
             ELSE IF scale # "" /\ ScaleRaises(scale)
             THEN End(g.cache, vis, g.ret, "", g.zooms, 1, "none")
             ELSE IF ContourBySpinsRaises(g.ret, spins) # ""
             THEN End(g.cache, "contour", g.ret, "", g.zooms, 1, "none")
             ELSE End(g.cache, "contour", g.ret, "", g.zooms, 1, "contour"))

\* update_colormap_scale, the slot of valueChanged, with the spin boxes sp
\* the change left: no try block
UpdateColormapScaleEnd(t, p, c, vis, zf, sp) ==
    IF NotReady(t, p)
    THEN {[End(c, vis, None, "", 0, 0, "none") EXCEPT !.spins = sp]}
    ELSE Let(GetIntensityArray(t, p, c, zf), LAMBDA g :
             IF g.raised # ""
             THEN {[End(g.cache, vis, None, g.raised, 0, 0, "none")
                       EXCEPT !.spins = sp]}
             ELSE IF g.ret = None   \* np.min(None), setRange(None, None)
             THEN {[End(g.cache, vis, None, "TypeError", g.zooms, 1, "none")
                       EXCEPT !.spins = sp]}
             ELSE {Scaled(g, vis, o) :
                     o \in ScaleBody(g.ret, vis, sp,
                                     NestedZooms(t, p, g.cache, zf), 0)})

\* apply_units_and_scale: only ValueError is caught
ApplyUnitsAndScaleEnd(t, p, c, vis, zf, scale) ==
    IF ScaleRaises(scale) THEN End(c, vis, None, "", 0, 0, "none")
    ELSE IF NotReady(t, p) THEN End(c, vis, None, "", 0, 0, "none")
    ELSE Let(GetIntensityArray(t, p, c, zf), LAMBDA g :
             IF g.raised # "" THEN End(g.cache, vis, None, "", 0, 0, "none")
             ELSE IF DrawByModeRaises(vis, g.ret, spins) = "ValueError"
             THEN End(g.cache, vis, g.ret, "", g.zooms, 1, "none")
             ELSE IF DrawByModeRaises(vis, g.ret, spins) # ""
             THEN End(g.cache, vis, g.ret, DrawByModeRaises(vis, g.ret, spins),
                      g.zooms, 1, "none")
             ELSE End(g.cache, vis, g.ret, "", g.zooms, 1,
                      IF vis = "contour" THEN "contour" ELSE "heatmap"))

\* apply_highlights: only ValueError is caught; the ways it can end
ApplyHighlightsEnd(t, p, c, vis, zf, highlight, scale) ==
    IF NotReady(t, p) THEN {End(c, vis, None, "", 0, 0, "none")}
    ELSE IF highlight = "" THEN ShowHeatmapEnd(t, p, c, vis, zf, scale)
    ELSE IF highlight = "x" THEN {End(c, vis, None, "", 0, 0, "none")}
    ELSE Let(GetIntensityArray(t, p, c, zf), LAMBDA g :
             IF g.raised # "" THEN {End(g.cache, vis, None, "", 0, 0, "none")}
             ELSE IF DrawHeatmapRaises(g.ret) # ""
             THEN {End(g.cache, vis, g.ret, DrawHeatmapRaises(g.ret),
                       g.zooms, 1, "none")}
             ELSE IF ContourRaises(g.ret) # ""
             THEN {End(g.cache, vis, g.ret, ContourRaises(g.ret),
                       g.zooms, 1, "heatmap")}
             ELSE {End(g.cache, vis, g.ret, "", g.zooms, 1, "heatmap")})

\* apply_custom_scale: every exception is caught and reported in a dialog
ApplyCustomScaleEnd(t, p, c, vis, zf, levels) ==
    IF NotReady(t, p) THEN End(c, vis, None, "", 0, 0, "none")
    ELSE IF levels = "" THEN End(c, vis, None, "", 0, 0, "none")
    ELSE Let(GetIntensityArray(t, p, c, zf), LAMBDA g :
             IF g.raised # "" THEN End(g.cache, vis, None, "", 0, 0, "none")
             ELSE IF DrawContoursRaises(g.ret) # ""
             THEN End(g.cache, vis, g.ret, "", g.zooms, 1, "none")
             ELSE End(g.cache, vis, g.ret, "", g.zooms, 1, "contour"))

UpdateDisplayEndClearing(t, p, c, vis, zf, tab, scale) ==
    IF NotReady(t, p) THEN {End(c, vis, None, "", 0, 0, "none")}
    ELSE IF tab = 2
    THEN IF vis = "contour" THEN {ShowContoursEnd(t, p, c, vis, zf, scale)}
         ELSE ShowHeatmapEnd(t, p, c, vis, zf, scale)
    ELSE IF tab = 3
    THEN {End(InvalidateCache(c), vis, None, "", 0, 0, "grid")}
    ELSE {End(c, vis, None, "", 0, 0, "none")}

\* update_display with tab_widget.currentIndex() = tab; the ways it can end
UpdateDisplayEnd(t, p, c, vis, zf, tab, scale) ==
    IF NotReady(t, p) THEN {End(c, vis, None, "", 0, 0, "none")}
    ELSE IF tab = 2
    THEN IF vis = "contour" THEN {ShowContoursEnd(t, p, c, vis, zf, scale)}
         ELSE ShowHeatmapEnd(t, p, c, vis, zf, scale)
    ELSE IF tab = 3 THEN {End(c, vis, None, "", 0, 0, "grid")}
    ELSE {End(c, vis, None, "", 0, 0, "none")}

\* the state a handler leaves that changed neither the table nor the image,
\* ending in one of ends
FinishAny(ends) == \E e \in ends :
    /\ cache' = e.cache
    /\ current_vis_mode' = e.vis
    /\ spins' = e.spins
    /\ last' = [ret |-> e.ret, raised |-> e.raised, zooms |-> e.zooms,
                drew |-> e.drew, range |-> e.range, data |-> e.data]
    /\ ncalls' = Min(2, ncalls + e.calls)
    /\ UNCHANGED <<table, current_pixmap, zoom_fails, edits>>

Finish(end) == FinishAny({end})

UpdateIntensityPreview ==
    /\ Finish(UpdateIntensityPreviewEnd(table, current_pixmap, cache,
                                        current_vis_mode, zoom_fails))
    /\ UNCHANGED <<geomVars, compVars, toolVars>>

ShowHeatmap ==
    /\ \E scale \in ScaleTexts :
        FinishAny(ShowHeatmapEnd(table, current_pixmap, cache,
                                 current_vis_mode, zoom_fails, scale))
    /\ UNCHANGED <<geomVars, compVars, toolVars>>

ShowContours ==
    /\ \E scale \in ScaleTexts :
        Finish(ShowContoursEnd(table, current_pixmap, cache, current_vis_mode,
                               zoom_fails, scale))
    /\ UNCHANGED <<geomVars, compVars, toolVars>>

\* the user sets one of the spin boxes to a new value: valueChanged runs
\* update_colormap_scale
UpdateColormapScale ==
    /\ \E which \in {"vmin", "vmax"} : \E v \in SpinInputs :
       \E r \in SetValue(spins[which], v) :
           /\ r.emitted
           /\ FinishAny(UpdateColormapScaleEnd(
                            table, current_pixmap, cache, current_vis_mode,
                            zoom_fails, [spins EXCEPT ![which] = r.spin]))
    /\ UNCHANGED <<geomVars, compVars, toolVars>>

ApplyUnitsAndScale ==
    /\ \E scale \in ScaleTexts :
        Finish(ApplyUnitsAndScaleEnd(table, current_pixmap, cache,
                                     current_vis_mode, zoom_fails, scale))
    /\ UNCHANGED <<geomVars, compVars, toolVars>>

ApplyHighlights ==
    /\ \E highlight \in HighlightTexts : \E scale \in ScaleTexts :
        FinishAny(ApplyHighlightsEnd(table, current_pixmap, cache,
                                     current_vis_mode, zoom_fails, highlight,
                                     scale))
    /\ UNCHANGED <<geomVars, compVars, toolVars>>

ApplyCustomScale ==
    /\ \E levels \in LevelTexts :
        Finish(ApplyCustomScaleEnd(table, current_pixmap, cache,
                                   current_vis_mode, zoom_fails, levels))
    /\ UNCHANGED <<geomVars, compVars, toolVars>>

\* update_alpha and update_cmap end in update_display
UpdateDisplay ==
    /\ \E tab \in 1..3 : \E scale \in ScaleTexts :
        FinishAny(UpdateDisplayEnd(table, current_pixmap, cache,
                                   current_vis_mode, zoom_fails, tab, scale))
    /\ UNCHANGED <<geomVars, compVars, toolVars>>

\* show_grid_overlay: the image under a grid, on the grid canvas
ShowGridOverlay ==
    /\ Finish(End(cache, current_vis_mode, None, "", 0, 0,
                  IF current_pixmap = None THEN "none" ELSE "grid"))
    /\ UNCHANGED <<geomVars, compVars, toolVars>>

\* apply_formatting: fonts and ticks of the plot that is there
ApplyFormatting ==
    /\ Finish(End(cache, current_vis_mode, None, "", 0, 0, "none"))
    /\ UNCHANGED <<geomVars, compVars, toolVars>>

\* save_blended_image: the figure as it is, resized for the export and back
SaveBlendedImage ==
    /\ Finish(End(cache, current_vis_mode, None, "", 0, 0, "none"))
    /\ UNCHANGED <<geomVars, compVars, toolVars>>

\* save_grid_image, with a file name chosen or the dialog cancelled;
\* self.current_pixmap.width() is not guarded
SaveGridImage ==
    /\ \E chosen \in BOOLEAN :
        Finish(End(cache, current_vis_mode, None,
                   IF chosen /\ current_pixmap = None THEN "AttributeError"
                   ELSE "", 0, 0, "none"))
    /\ UNCHANGED <<geomVars, compVars, toolVars>>

\* the common tail of the handlers that change the table or the image:
\* invalidate_cache(), then update_intensity_preview(); caught: the handler
\* catches the exception and reports it in a dialog
Refresh(tbl, p, caught) ==
    \E t \in {tbl} :
    \E e \in {UpdateIntensityPreviewEnd(t, p, InvalidateCache(cache),
                                       current_vis_mode, zoom_fails)} :
        /\ table' = t
        /\ current_pixmap' = p
        /\ cache' = e.cache
        /\ last' = [ret |-> e.ret, raised |-> IF caught THEN "" ELSE e.raised,
                    zooms |-> e.zooms, drew |-> e.drew, range |-> None,
                    data |-> None]
        /\ ncalls' = e.calls
        /\ UNCHANGED <<current_vis_mode, zoom_fails, edits, spins>>

\* load_image with one of the image files of sizes chosen
LoadImageOf(sizes) ==
    /\ \E size \in sizes : Refresh(table, size, FALSE)
    /\ UNCHANGED <<geomVars, compVars, toolVars>>

LoadImage == LoadImageOf(ImageSizes)

\* load_csv_excel with one of files chosen; a file pandas rejects changes
\* nothing
LoadCsvExcelOf(files) ==
    /\ \E data \in files :
        IF data = <<>>
        THEN /\ last' = [ret |-> None, raised |-> "", zooms |-> 0,
                         drew |-> "none", range |-> None, data |-> None]
             /\ UNCHANGED <<table, current_pixmap, cache, current_vis_mode,
                            zoom_fails, edits, spins, ncalls>>
        ELSE Refresh(SetItems(Resize(table, Len(data), Len(data[1])), data, 1),
                     current_pixmap, TRUE)
    /\ UNCHANGED <<geomVars, compVars, toolVars>>

LoadCsvExcel == LoadCsvExcelOf(CsvFiles)

\* str(num_val) of a pasted field: float(val), 0.0 when that raises
PasteText(val) ==
    StrOfFloat(IF val \in NumTexts THEN FloatOf(val) ELSE Rat(0, 1))

\* paste_clipboard_data with text on the clipboard
PasteClipboardData ==
    /\ \E clip \in Clipboards :
        LET data == [r \in 1..Len(clip) |->
                        [c \in 1..Len(clip[r]) |-> PasteText(clip[r][c])]]
        IN  Refresh(SetItems(Resize(table, Len(data), MaxLen(data)), data, 1),
                    current_pixmap, FALSE)
    /\ UNCHANGED <<geomVars, compVars, toolVars>>

AddRow ==
    /\ table.rows < MaxRows
    /\ Refresh(Resize(table, table.rows + 1, table.cols), current_pixmap,
               FALSE)
    /\ UNCHANGED <<geomVars, compVars, toolVars>>

RemoveRow ==
    /\ table.rows > 0
    /\ Refresh(Resize(table, table.rows - 1, table.cols), current_pixmap,
               FALSE)
    /\ UNCHANGED <<geomVars, compVars, toolVars>>

AddColumn ==
    /\ table.cols < MaxCols
    /\ Refresh(Resize(table, table.rows, table.cols + 1), current_pixmap,
               FALSE)
    /\ UNCHANGED <<geomVars, compVars, toolVars>>

RemoveColumn ==
    /\ table.cols > 0
    /\ Refresh(Resize(table, table.rows, table.cols - 1), current_pixmap,
               FALSE)
    /\ UNCHANGED <<geomVars, compVars, toolVars>>

\* the user commits a new text in a cell: cellChanged -> invalidate_cache
CellChanged ==
    /\ edits < MaxEdits
    /\ \E r \in 1..table.rows : \E c \in 1..table.cols : \E text \in EditTexts :
        /\ text # table.items[r][c]
        /\ table' = SetItem(table, r, c, text)
    /\ cache' = InvalidateCache(cache)
    /\ edits' = edits + 1
    /\ last' = [ret |-> None, raised |-> "", zooms |-> 0, drew |-> "none",
                range |-> None, data |-> None]
    /\ ncalls' = 0
    /\ UNCHANGED <<current_pixmap, current_vis_mode, zoom_fails, spins, geomVars,
                   compVars, toolVars>>

\* both windows after construction; MainWindow.__init__ of the heat map tool
\* ends its second tab with update_intensity_preview() on the empty table
\* a QSlider as initUI builds it: minimum 0, maximum 99, value 0
NewSlider == [value |-> 0, maximum |-> 99]

\* the grid spin boxes as __init__ builds them: range 1..200, value 20
GridSpinMin == 1
GridSpinMax == 200
GridSpinStart == 20

Start(zoomFails) ==
    /\ scout_dcm = None
    /\ patient_pos = None
    /\ px_ret = None
    /\ px_raised = FALSE
    /\ slice_series = <<>>
    /\ slice_lines = <<>>
    /\ slice_raised = ""
    /\ table = EmptyTable
    /\ current_pixmap = None
    /\ cache = [cached_intensity_array |-> None, last_csv_data |-> << <<>> >>,
                last_csv_shape |-> None, last_pixmap_size |-> None]
    /\ current_vis_mode = "heatmap"
    /\ zoom_fails \in zoomFails
    /\ edits = 0
    /\ spins = [vmin |-> NewSpin, vmax |-> NewSpin]
    /\ last = [ret |-> None, raised |-> "", zooms |-> 0, drew |-> "nodata",
               range |-> None, data |-> None]
    /\ ncalls = 1
    /\ comp_args = None
    /\ comp_ret = None
    /\ comp_raised = ""
    /\ comp_written = 0
    /\ canvas = None
    /\ grid_shape = [rows |-> 0, cols |-> 0]
    /\ grid_nx_spin = GridSpinStart
    /\ grid_ny_spin = GridSpinStart
    /\ dicom_series1 = <<>>
    /\ dicom_series2 = <<>>
    /\ series_label1 = ""
    /\ series_label2 = ""
    /\ current_slice1 = 0
    /\ current_slice2 = 0
    /\ slider1 = NewSlider
    /\ slider2 = NewSlider
    /\ measurements = <<>>
    /\ analyze_raised = ""
    /\ scanner = None
    /\ tree = <<>>
    /\ ser_scout = None
    /\ ser_axial = None
    /\ overlays = <<>>
    /\ selected_overlay = None
    /\ view_lines = 0
    /\ aec_raised = ""
    /\ image_data = None
    /\ seed = None
    /\ click_bound = FALSE
    /\ region_seed = None

HeatInit == Start(BOOLEAN)

GeomInit == Start({FALSE})

\* the handlers that fill, edit and read the table: every one that changes
\* the table or the image, and the redraws that leave the spin boxes alone
HeatNext ==
    \/ LoadImage
    \/ LoadCsvExcel
    \/ PasteClipboardData
    \/ AddRow
    \/ RemoveRow
    \/ AddColumn
    \/ RemoveColumn
    \/ CellChanged
    \/ UpdateIntensityPreview
    \/ ShowContours
    \/ ApplyUnitsAndScale
    \/ ApplyCustomScale

\* files with one row of two values each, for the colour scale: their
\* ranges overlap
ScaleFiles ==
    { << <<"10", "30">> >>,
      << <<"0", "20">> >> }

\* a file with one row and a missing cell
NaNFiles == { << <<"1.0", "nan">> >> }

\* the image the colour scale is tried on, <<width, height>>
ScaleImages == {<<2, 2>>}

LoadScaleImage == LoadImageOf(ScaleImages)

LoadScaleCsv == LoadCsvExcelOf(ScaleFiles)

LoadNaNCsv == LoadCsvExcelOf(NaNFiles)

\* the redraw handlers and the spin boxes, on the files of ScaleFiles
ScaleNext ==
    \/ LoadScaleImage
    \/ LoadScaleCsv
    \/ RemoveColumn
    \/ UpdateIntensityPreview
    \/ ShowHeatmap
    \/ ShowContours
    \/ UpdateColormapScale
    \/ ApplyUnitsAndScale
    \/ ApplyHighlights
    \/ ApplyCustomScale
    \/ UpdateDisplay
    \/ ShowGridOverlay
    \/ ApplyFormatting
    \/ SaveBlendedImage
    \/ SaveGridImage

\* the colour scale on a file with a missing cell
NaNNext ==
    \/ LoadScaleImage
    \/ LoadNaNCsv
    \/ ShowHeatmap
    \/ ShowContours
    \/ UpdateColormapScale

----------------------------------------------------------------------------
(* The AEC viewer's mapper calls *)

\* _on_tree_select on a scout series: ser_scout changes
SelectScout ==
    \E dcm \in ScoutSet :
        /\ scout_dcm' = <<dcm>>
        /\ patient_pos' = None
        /\ px_ret' = None
        /\ px_raised' = FALSE
        /\ slice_series' = <<>>
        /\ slice_lines' = <<>>     \* _remove_all_overlays
        /\ slice_raised' = ""
        /\ UNCHANGED <<heatVars, compVars, toolVars>>

\* one call of patient_coord_to_scout_pixel from draw_slice_position_lines;
\* no statement of the function raises for well-formed attribute lists
MapPoint ==
    /\ scout_dcm # None
    /\ \E pos \in PointSet :
        /\ patient_pos' = pos
        /\ px_ret' = patient_coord_to_scout_pixel(pos, scout_dcm[1])
        /\ px_raised' = FALSE
    /\ UNCHANGED <<scout_dcm, slice_series, slice_lines, slice_raised, heatVars,
                   compVars, toolVars>>

\* ImagePositionPatient of the datasets a series can hold: two well-formed
\* positions, one with a component missing, and None for a dataset that has
\* no such attribute
SlicePositions == {<<0, 0, 0>>, <<3, 0, MaxCoord>>, <<0, 3>>, None}

\* series.instances, each dataset by its ImagePositionPatient
SeriesSet ==
    {<<>>} \cup {<<a>> : a \in SlicePositions}
           \cup {<<a, b>> : a \in SlicePositions, b \in SlicePositions}

\* np.array(patient_pos) - origin raises ValueError unless both have the
\* same length
MapperRaises(pos, dcm) == Len(pos) # Len(dcm.ImagePositionPatient)

\* the for loop of draw_slice_position_lines over dcms = [first_dcm,
\* last_dcm] from index i on; single: first_dcm is last_dcm
RECURSIVE SliceLoop(_, _, _, _, _)
SliceLoop(dcms, i, scout, lines, single) ==
    IF i > Len(dcms) THEN [lines |-> lines, raised |-> ""]
    ELSE IF dcms[i] = None     \* dcm.ImagePositionPatient, outside the try
    THEN [lines |-> lines, raised |-> "AttributeError"]
    ELSE IF MapperRaises(dcms[i], scout)
    THEN SliceLoop(dcms, i + 1, scout, lines, single)
    ELSE SliceLoop(dcms, i + 1, scout,
                   Append(lines,
                          [text |-> IF i = 1 \/ single THEN "Begin" ELSE "End",
                           pos |-> patient_coord_to_scout_pixel(dcms[i],
                                                                scout)[1]]),
                   single)

\* draw_slice_position_lines(xs, ys, shape, series), called once a scout
\* is selected
DrawSlicePositionLines ==
    /\ scout_dcm # None
    /\ \E series \in SeriesSet :
        \E r \in {IF series = <<>>
                  THEN [lines |-> <<>>, raised |-> ""]
                  ELSE SliceLoop(<<series[1], series[Len(series)]>>, 1,
                                 scout_dcm[1], <<>>, Len(series) = 1)} :
            /\ slice_series' = series
            /\ slice_lines' = r.lines
            /\ slice_raised' = r.raised
    /\ UNCHANGED <<scout_dcm, patient_pos, px_ret, px_raised, heatVars,
                   compVars, toolVars>>

GeomNext ==
    \/ SelectScout
    \/ MapPoint

LinesNext ==
    \/ SelectScout
    \/ DrawSlicePositionLines

----------------------------------------------------------------------------
(* CompositeFrameBuilder: composite(resampled, fullSize, cropRect | None) *)

\* sample grids handed to composite
CompGrids ==
    {<< <<Rat(0, 1), Rat(10, 1)>>, <<Rat(20, 1), Rat(30, 1)>> >>,
     << <<Rat(7, 1)>> >>}

\* fullSize as <<width, height>>
FullSizes == {<<MaxFull, MaxFull>>, <<MaxFull, MaxFull - 1>>}

\* cropRect: None or <<x, y, w, h>>
CropRects ==
    {None} \cup {<<x, y, w, h>> : x \in -1..(MaxFull - 1), y \in -1..(MaxFull - 1),
                                 w \in 1..MaxFull, h \in 1..MaxFull}

ZeroArray(fullSize) ==
    [r \in 1..fullSize[2] |-> [c \in 1..fullSize[1] |-> Rat(0, 1)]]

\* a fullSize-shaped array filled with NaN ("no data")
NaNArray(fullSize) ==
    [r \in 1..fullSize[2] |-> [c \in 1..fullSize[1] |-> NaN]]

CropInBoundsOriginOnly(fullSize, rect) ==
    /\ 0 <= rect[1]
    /\ 0 <= rect[2]

\* 0 <= x, y and x+w <= fullSize.width, y+h <= fullSize.height
CropInBounds(fullSize, rect) ==
    /\ 0 <= rect[1]
    /\ 0 <= rect[2]
    /\ rect[1] + rect[3] <= fullSize[1]
    /\ rect[2] + rect[4] <= fullSize[2]

\* write rows i.. of field into the sub-rectangle [y:y+h, x:x+w] of full
RECURSIVE WriteRows(_, _, _, _, _)
WriteRows(full, field, x, y, i) ==
    IF i > Len(field) THEN full
    ELSE WriteRows(
             [full EXCEPT ![y + i] =
                 [c \in 1..Len(full[y + i]) |->
                     IF c > x /\ c <= x + Len(field[i])
                     THEN field[i][c - x] ELSE full[y + i][c]]],
             field, x, y, i + 1)

\* composite: the result, the error raised and the cells written
Composite(grid, fullSize, cropRect, zoomFails) ==
    IF cropRect = None
    THEN [ret |-> Resample(grid, fullSize, zoomFails), raised |-> "",
          written |-> 0]
    ELSE IF ~CropInBounds(fullSize, cropRect)
    THEN [ret |-> None, raised |-> "BoundsError", written |-> 0]
    ELSE Let(Resample(grid, <<cropRect[3], cropRect[4]>>, zoomFails),
             LAMBDA field :
                 [ret |-> WriteRows(NaNArray(fullSize), field, cropRect[1],
                                    cropRect[2], 1),
                  raised |-> "",
                  written |-> cropRect[3] * cropRect[4]])

\* one composite call
CompositeCall ==
    /\ \E grid \in CompGrids : \E fullSize \in FullSizes :
       \E cropRect \in CropRects :
       \E e \in {Composite(grid, fullSize, cropRect, zoom_fails)} :
           /\ comp_args' = <<[grid |-> grid, fullSize |-> fullSize,
                              cropRect |-> cropRect]>>
           /\ comp_ret' = e.ret
           /\ comp_raised' = e.raised
           /\ comp_written' = e.written
    /\ UNCHANGED <<geomVars, heatVars, toolVars>>

CompNext == CompositeCall

----------------------------------------------------------------------------
(* DraggableCanvas: where draw_heatmap and draw_contours put things *)

\* scale_x / scale_y values
DrawScales == {Rat(1, 2), Rat(1, 1), Rat(2, 1)}

\* x / 2 and -x / 2 of a finite float
Half(x) == Rat(x[1], 2 * x[2])

NegHalf(x) == Rat(-x[1], 2 * x[2])

\* draw_heatmap: the extents of the base image and of the intensity image
\* as [left, right, bottom, top], and the axis limits as set
DrawHeatmapLayout(width, height, scale_x, scale_y) ==
    LET real_width  == RMul(Rat(width, 1), scale_x)
        real_height == RMul(Rat(height, 1), scale_y)
    IN  [kind |-> "heatmap", width |-> width, height |-> height,
         scale_x |-> scale_x, scale_y |-> scale_y,
         base |-> <<NegHalf(real_width), Half(real_width),
                    NegHalf(real_height), Half(real_height)>>,
         overlay |-> <<NegHalf(real_width), Half(real_width),
                       NegHalf(real_height), Half(real_height)>>,
         xlim |-> <<NegHalf(real_width), Half(real_width)>>,
         ylim |-> <<Half(real_height), NegHalf(real_width)>>]

\* draw_contours: the extent of the base image, the rectangle the meshgrid
\* of contourf spans, and the axis limits as set
DrawContoursLayout(width, height, scale_x, scale_y) ==
    LET real_width  == RMul(Rat(width, 1), scale_x)
        real_height == RMul(Rat(height, 1), scale_y)
    IN  [kind |-> "contour", width |-> width, height |-> height,
         scale_x |-> scale_x, scale_y |-> scale_y,
         base |-> <<NegHalf(real_width), Half(real_width),
                    NegHalf(real_height), Half(real_width)>>,
         overlay |-> <<NegHalf(real_width), Half(real_width),
                       NegHalf(real_height), Half(real_height)>>,
         xlim |-> <<NegHalf(real_width), Half(real_width)>>,
         ylim |-> <<Half(real_height), NegHalf(real_width)>>]

\* what a call of a draw method leaves alone
drawFrame == <<geomVars, heatVars, compVars, gridVars, seriesVars, aecVars,
               mriVars>>

\* one draw_heatmap call
DrawHeatmapCall ==
    /\ \E width \in 1..MaxSide : \E height \in 1..MaxSide :
       \E scale_x \in DrawScales : \E scale_y \in DrawScales :
           canvas' = <<DrawHeatmapLayout(width, height, scale_x, scale_y)>>
    /\ UNCHANGED drawFrame

\* one draw_contours call
DrawContoursCall ==
    /\ \E width \in 1..MaxSide : \E height \in 1..MaxSide :
       \E scale_x \in DrawScales : \E scale_y \in DrawScales :
           canvas' = <<DrawContoursLayout(width, height, scale_x, scale_y)>>
    /\ UNCHANGED drawFrame

DrawNext ==
    \/ DrawHeatmapCall
    \/ DrawContoursCall

----------------------------------------------------------------------------
(* The grid spin boxes.  The table is kept by its shape only: its cells are
   numbers or missing, so that the preview every handler draws before it
   sets the spin boxes does not raise. *)

\* QSpinBox.setValue: the value is bounded to the range of the spin box
GridSetValue(v) == Max(GridSpinMin, Min(GridSpinMax, v))

\* set_grid_spinboxes_from_data: the values of the two spin boxes after it
SetGridSpinboxesFromData(rows, cols) ==
    IF rows > 0 /\ cols > 0
    THEN [nx |-> GridSetValue(cols), ny |-> GridSetValue(rows)]
    ELSE [nx |-> GridSetValue(100), ny |-> GridSetValue(100)]

\* what the handlers of the grid tab and the data table leave alone
gridFrame == <<geomVars, heatVars, compVars, drawVars, seriesVars, aecVars,
               mriVars>>

\* a handler that leaves the table with the given shape and then calls
\* set_grid_spinboxes_from_data
GridRefresh(rows, cols) ==
    /\ grid_shape' = [rows |-> rows, cols |-> cols]
    /\ grid_nx_spin' = SetGridSpinboxesFromData(rows, cols).nx
    /\ grid_ny_spin' = SetGridSpinboxesFromData(rows, cols).ny
    /\ UNCHANGED gridFrame

\* shapes of the files load_csv_excel reads and of the texts pasted
GridFileShapes == {<<1, 1>>, <<2, 2>>, <<1, MaxGridCols>>}
GridClipShapes == {<<0, 0>>, <<1, 2>>, <<2, MaxGridCols - 1>>}

\* values the user sets in a spin box by hand
GridSpinInputs == {GridSpinMin, 7, GridSpinMax}

GridLoadImage == GridRefresh(grid_shape.rows, grid_shape.cols)

GridLoadCsvExcel == \E sh \in GridFileShapes : GridRefresh(sh[1], sh[2])

GridPasteClipboardData == \E sh \in GridClipShapes : GridRefresh(sh[1], sh[2])

GridAddRow ==
    /\ grid_shape.rows < MaxGridRows
    /\ GridRefresh(grid_shape.rows + 1, grid_shape.cols)

GridRemoveRow ==
    /\ grid_shape.rows > 0
    /\ GridRefresh(grid_shape.rows - 1, grid_shape.cols)

GridAddColumn ==
    /\ grid_shape.cols < MaxGridCols
    /\ GridRefresh(grid_shape.rows, grid_shape.cols + 1)

GridRemoveColumn ==
    /\ grid_shape.cols > 0
    /\ GridRefresh(grid_shape.rows, grid_shape.cols - 1)

\* the user changes one of the spin boxes
GridSpinEdit ==
    /\ \E v \in GridSpinInputs :
          \/ grid_nx_spin' = GridSetValue(v) /\ UNCHANGED grid_ny_spin
          \/ grid_ny_spin' = GridSetValue(v) /\ UNCHANGED grid_nx_spin
    /\ UNCHANGED <<grid_shape, gridFrame>>

\* the handlers that end in set_grid_spinboxes_from_data
GridHandler ==
    \/ GridLoadImage
    \/ GridLoadCsvExcel
    \/ GridPasteClipboardData
    \/ GridAddRow
    \/ GridRemoveRow
    \/ GridAddColumn
    \/ GridRemoveColumn

GridNext ==
    \/ GridHandler
    \/ GridSpinEdit

----------------------------------------------------------------------------
(* The series comparison tool (DICOMViewer) *)

\* a file the user picks: unreadable, or a dataset with its InstanceNumber
\* (None when the tag is missing), SeriesDescription ("" when missing) and
\* the shape of its pixel array
DcmFile(ok, n, desc, shape) ==
    [ok |-> ok, InstanceNumber |-> n, SeriesDescription |-> desc,
     shape |-> shape]

Unreadable == DcmFile(FALSE, <<0>>, "", <<0, 0>>)

\* the file selections offered to load_dicom_series
FileLists ==
    { <<>>,
      <<Unreadable>>,
      <<DcmFile(TRUE, <<1>>, "A", <<8, 8>>)>>,
      <<DcmFile(TRUE, <<2>>, "", <<8, 8>>), DcmFile(TRUE, <<1>>, "", <<8, 8>>)>>,
      <<DcmFile(TRUE, <<3>>, "B", <<9, 9>>), Unreadable,
        DcmFile(TRUE, <<1>>, "B", <<9, 9>>), DcmFile(TRUE, <<2>>, "B", <<9, 9>>)>>,
      <<DcmFile(TRUE, None, "A", <<8, 8>>)>> }

\* what the user answers to the series description dialog
DialogAnswers == {[text |-> "typed", ok |-> TRUE], [text |-> "", ok |-> FALSE]}

\* positions the user drags a slider to
SliderInputs == {0, 1, 2, 50}

\* the loop of load_dicom_series over the chosen files
RECURSIVE ReadFiles(_, _, _, _, _)
ReadFiles(files, i, series, label, answer) ==
    IF i > Len(files)
    THEN [series |-> series, label |-> label, cancelled |-> FALSE]
    ELSE IF ~files[i].ok THEN ReadFiles(files, i + 1, series, label, answer)
    ELSE IF label # ""
    THEN ReadFiles(files, i + 1, Append(series, files[i]), label, answer)
    ELSE IF files[i].SeriesDescription # ""
    THEN ReadFiles(files, i + 1, Append(series, files[i]),
                   files[i].SeriesDescription, answer)
    ELSE IF ~answer.ok
    THEN [series |-> Append(series, files[i]), label |-> answer.text,
          cancelled |-> TRUE]
    ELSE ReadFiles(files, i + 1, Append(series, files[i]), answer.text, answer)

\* list.sort(key=lambda x: int(x.InstanceNumber)): stable insertion
RECURSIVE InsertByInstance(_, _)
InsertByInstance(sorted, d) ==
    IF sorted = <<>> THEN <<d>>
    ELSE IF sorted[Len(sorted)].InstanceNumber[1] <= d.InstanceNumber[1]
    THEN Append(sorted, d)
    ELSE Append(InsertByInstance(SubSeq(sorted, 1, Len(sorted) - 1), d),
                sorted[Len(sorted)])

RECURSIVE SortByInstance(_)
SortByInstance(series) ==
    IF series = <<>> THEN <<>>
    ELSE InsertByInstance(SortByInstance(SubSeq(series, 1, Len(series) - 1)),
                          series[Len(series)])

\* QSlider.setValue: bounded to 0..maximum
SliderSetValue(sl, v) == [sl EXCEPT !.value = Max(0, Min(sl.maximum, v))]

\* QSlider.setMaximum: the maximum is at least the minimum and the value is
\* bounded again
SliderSetMaximum(sl, m) ==
    SliderSetValue([sl EXCEPT !.maximum = Max(0, m)], sl.value)

\* the sliders and slice indices the slots work on
Sliders == [cs1 |-> current_slice1, cs2 |-> current_slice2,
            s1 |-> slider1, s2 |-> slider2]

\* update_images_from_slider2
UpdateImagesFromSlider2(st) == [st EXCEPT !.cs2 = st.s2.value]

\* update_images_from_slider1; the valueChanged of slider2.setValue runs
\* update_images_from_slider2, which the slot calls itself once more
UpdateImagesFromSlider1(st) ==
    LET a == [st EXCEPT !.cs1 = st.s1.value]
        b == IF a.cs1 < a.s2.maximum
             THEN [a EXCEPT !.s2 = SliderSetValue(a.s2, a.s1.value)]
             ELSE a
    IN  UpdateImagesFromSlider2(b)

\* update_slider_range without the valueChanged of a bounded value
UpdateSliderRangeSilent(st, series1, series2) ==
    LET a == IF series1 # <<>>
             THEN [st EXCEPT !.s1 = SliderSetMaximum(st.s1, Len(series1) - 1)]
             ELSE st
    IN  IF series2 # <<>>
        THEN [a EXCEPT !.s2 = SliderSetMaximum(a.s2, Len(series2) - 1)]
        ELSE a

\* update_slider_range; setMaximum emits valueChanged when it had to bound
\* the value, which runs the slot of that slider
UpdateSliderRange(st, series1, series2) ==
    LET a == IF series1 # <<>>
             THEN [st EXCEPT !.s1 = SliderSetMaximum(st.s1, Len(series1) - 1)]
             ELSE st
        b == IF a.s1.value # st.s1.value THEN UpdateImagesFromSlider1(a)
             ELSE a
        c == IF series2 # <<>>
             THEN [b EXCEPT !.s2 = SliderSetMaximum(b.s2, Len(series2) - 1)]
             ELSE b
    IN  IF c.s2.value # b.s2.value THEN UpdateImagesFromSlider2(c) ELSE c

\* what the handlers of the series comparison tool leave alone
seriesFrame == <<geomVars, heatVars, compVars, drawVars, gridVars, aecVars,
                 mriVars>>

SetSliders(st) ==
    /\ current_slice1' = st.cs1
    /\ current_slice2' = st.cs2
    /\ slider1' = st.s1
    /\ slider2' = st.s2

\* load_dicom_series(series_num)
LoadDicomSeries ==
    /\ \E series_num \in {1, 2} : \E files \in FileLists :
       \E answer \in DialogAnswers :
        LET read == ReadFiles(files, 1, <<>>, "", answer)
            missing == \E i \in 1..Len(read.series) :
                          read.series[i].InstanceNumber = None
        IN  IF files = <<>> \/ read.cancelled \/ read.series = <<>>
            THEN /\ analyze_raised' = ""
                 /\ UNCHANGED <<dicom_series1, dicom_series2, series_label1,
                                series_label2, current_slice1, current_slice2,
                                slider1, slider2, measurements>>
            ELSE IF missing
            THEN /\ analyze_raised' = "AttributeError"
                 /\ UNCHANGED <<dicom_series1, dicom_series2, series_label1,
                                series_label2, current_slice1, current_slice2,
                                slider1, slider2, measurements>>
            ELSE LET sorted == SortByInstance(read.series)
                     ser1 == IF series_num = 1 THEN sorted ELSE dicom_series1
                     ser2 == IF series_num = 1 THEN dicom_series2 ELSE sorted
                 IN  /\ dicom_series1' = ser1
                     /\ dicom_series2' = ser2
                     /\ series_label1' = IF series_num = 1 THEN read.label
                                         ELSE series_label1
                     /\ series_label2' = IF series_num = 1 THEN series_label2
                                         ELSE read.label
                     /\ SetSliders(UpdateSliderRange(Sliders, ser1, ser2))
                     /\ analyze_raised' = ""
                     /\ UNCHANGED measurements
    /\ UNCHANGED seriesFrame

\* the user moves slider 1: valueChanged runs update_images_from_slider1
MoveSlider1 ==
    /\ \E v \in SliderInputs :
        /\ SliderSetValue(slider1, v).value # slider1.value
        /\ SetSliders(UpdateImagesFromSlider1(
                          [Sliders EXCEPT !.s1 = SliderSetValue(slider1, v)]))
    /\ analyze_raised' = ""
    /\ UNCHANGED <<dicom_series1, dicom_series2, series_label1, series_label2,
                   measurements, seriesFrame>>

\* the user moves slider 2: valueChanged runs update_images_from_slider2
MoveSlider2 ==
    /\ \E v \in SliderInputs :
        /\ SliderSetValue(slider2, v).value # slider2.value
        /\ SetSliders(UpdateImagesFromSlider2(
                          [Sliders EXCEPT !.s2 = SliderSetValue(slider2, v)]))
    /\ analyze_raised' = ""
    /\ UNCHANGED <<dicom_series1, dicom_series2, series_label1, series_label2,
                   measurements, seriesFrame>>

\* calculate_snr_sdnr: None for a slice index past the series, else the two
\* ratios of the slice (kept as the terms they are computed from)
CalculateSnrSdnr(series, current_slice) ==
    IF current_slice >= Len(series) THEN None
    ELSE [snr  |-> <<"snr", series[current_slice + 1].InstanceNumber[1],
                     series[current_slice + 1].shape>>,
          sdnr |-> <<"sdnr", series[current_slice + 1].InstanceNumber[1],
                     series[current_slice + 1].shape>>]

\* calculate_ssim: structural_similarity refuses images of different shapes
CalculateSsimRaises(dicom1, dicom2) == dicom1.shape # dicom2.shape

CalculateSsim(dicom1, dicom2) ==
    <<"ssim", dicom1.InstanceNumber[1], dicom2.InstanceNumber[1], dicom1.shape>>

\* save_results_to_list
SaveResultsToList(rows, snr1, snr2, ssim_index) ==
    LET a == IF snr1 # None
             THEN Append(rows, <<series_label1, current_slice1, snr1.snr,
                                 snr1.sdnr, ssim_index>>)
             ELSE rows
    IN  IF snr2 # None
        THEN Append(a, <<series_label2, current_slice2, snr2.snr, snr2.sdnr,
                         ssim_index>>)
        ELSE a

\* how analyze ends: the exception that leaves it and the measurements
AnalyzeEnd ==
    IF dicom_series1 = <<>> \/ dicom_series2 = <<>>
    THEN [raised |-> "", rows |-> measurements]
    ELSE LET snr1 == CalculateSnrSdnr(dicom_series1, current_slice1)
             snr2 == CalculateSnrSdnr(dicom_series2, current_slice2)
         IN  IF \/ current_slice1 >= Len(dicom_series1)
                \/ current_slice2 >= Len(dicom_series2)
             THEN [raised |-> "IndexError", rows |-> measurements]
             ELSE IF CalculateSsimRaises(dicom_series1[current_slice1 + 1],
                                         dicom_series2[current_slice2 + 1])
             THEN [raised |-> "ValueError", rows |-> measurements]
             ELSE [raised |-> "",
                   rows |-> SaveResultsToList(measurements, snr1, snr2,
                              CalculateSsim(dicom_series1[current_slice1 + 1],
                                            dicom_series2[current_slice2 + 1]))]

\* analyze (the Analyze button or the Enter key)
Analyze ==
    /\ Len(measurements) + 2 <= MaxMeasurements
    /\ analyze_raised' = AnalyzeEnd.raised
    /\ measurements' = AnalyzeEnd.rows
    /\ UNCHANGED <<dicom_series1, dicom_series2, series_label1, series_label2,
                   current_slice1, current_slice2, slider1, slider2,
                   seriesFrame>>

SeriesNext ==
    \/ LoadDicomSeries
    \/ MoveSlider1
    \/ MoveSlider2
    \/ Analyze

----------------------------------------------------------------------------
(* The AEC viewer: tree, scout and overlays *)

\* a series as Scanner.scan collects it: uid, SeriesNumber, the
\* SeriesDescription and ImageType of its first instance, and its instances,
\* each by its ImagePositionPatient (None when the attribute is missing);
\* geometry holds the orientation, position and spacing of the first instance
MkSeries(uid, num, desc, image_type, instances) ==
    [uid |-> uid, num |-> num, desc |-> desc, image_type |-> image_type,
     instances |-> instances,
     geometry |-> [ImageOrientationPatient |-> <<1, 0, 0, 0, 1, 0>>,
                   ImagePositionPatient |-> <<0, 0, 0>>,
                   PixelSpacing |-> <<Rat(1, 1), Rat(1, 1)>>]]

Topogram == MkSeries("1.1", 1, "Topogram 0.6", {"ORIGINAL", "LOCALIZER"},
                     <<<<0, 0, 0>>>>)
Localizer == MkSeries("2.1", 1, "AP", {"ORIGINAL", "LOCALIZER"},
                      <<<<3, 0, MaxCoord>>>>)
Axial == MkSeries("1.2", 2, "Axial 5.0", {"ORIGINAL", "AXIAL"},
                  <<<<0, 0, 0>>, <<3, 0, MaxCoord>>>>)
Thin == MkSeries("1.3", 3, "Axial 1.0", {"ORIGINAL", "AXIAL"},
                 <<<<3, 0, MaxCoord>>, <<0, 3>>>>)
DoseReport == MkSeries("1.999", 999, "Dose Report", {"DERIVED", "SECONDARY"},
                       <<None>>)

\* the folders open_folder can scan: the studies in the order the scan met
\* them, each with its series in that order
Folders ==
    { << <<Topogram, Axial, Thin>> >>,
      << <<DoseReport, Topogram, Axial>> >>,
      << <<Axial>>, <<Localizer>> >>,
      <<>> }

\* SCOUT_RX.search on the descriptions of the folders above
ScoutRxSearch(text) == text \in {"Topogram 0.6"}

\* Series.is_scout
IsScout(ser) ==
    /\ ser.instances # <<>>
    /\ \/ ScoutRxSearch(ser.desc)
       \/ "LOCALIZER" \in ser.image_type
       \/ Len(ser.instances) = 1 /\ ser.num = 0

\* the sort key of _populate_tree: (not s.is_scout(), s.num)
TreeKeyLeq(a, b) ==
    \/ IsScout(a) /\ ~IsScout(b)
    \/ IsScout(a) = IsScout(b) /\ a.num <= b.num

RECURSIVE InsertByTreeKey(_, _)
InsertByTreeKey(sorted, ser) ==
    IF sorted = <<>> THEN <<ser>>
    ELSE IF TreeKeyLeq(sorted[Len(sorted)], ser) THEN Append(sorted, ser)
    ELSE Append(InsertByTreeKey(SubSeq(sorted, 1, Len(sorted) - 1), ser),
                sorted[Len(sorted)])

RECURSIVE SortByTreeKey(_)
SortByTreeKey(sers) ==
    IF sers = <<>> THEN <<>>
    ELSE InsertByTreeKey(SortByTreeKey(SubSeq(sers, 1, Len(sers) - 1)),
                         sers[Len(sers)])

\* _populate_tree: a study node without data, then its series nodes, each
\* with its series as data
RECURSIVE PopulateTree(_, _)
PopulateTree(studies, i) ==
    IF i > Len(studies) THEN <<>>
    ELSE <<[data |-> None]>>
         \o [k \in 1..Len(studies[i]) |->
                [data |-> <<SortByTreeKey(studies[i])[k]>>]]
         \o PopulateTree(studies, i + 1)

\* scanner.iter_series order: all series of all studies
RECURSIVE AllSeries(_, _)
AllSeries(studies, i) ==
    IF i > Len(studies) THEN <<>>
    ELSE studies[i] \o AllSeries(studies, i + 1)

\* the overlays, the selection and the slice lines a handler works on
Scene == [overlays |-> overlays, selected |-> selected_overlay,
          lines |-> view_lines, raised |-> ""]

\* select_overlay without the loop that lowers the other overlays
SelectOverlayNoReset(sc, id) ==
    [sc EXCEPT !.overlays = [i \in 1..Len(sc.overlays) |->
                                IF sc.overlays[i].id = id
                                THEN [sc.overlays[i] EXCEPT !.z = 20]
                                ELSE sc.overlays[i]],
               !.selected = <<id>>]

\* select_overlay
SelectOverlay(sc, id) ==
    [sc EXCEPT !.overlays = [i \in 1..Len(sc.overlays) |->
                                [sc.overlays[i] EXCEPT
                                    !.z = IF sc.overlays[i].id = id
                                          THEN 20 ELSE 10]],
               !.selected = <<id>>]

\* _remove_all_overlays
RemoveAllOverlays(sc) ==
    [sc EXCEPT !.overlays = <<>>, !.selected = None, !.lines = 0]

\* an identity for a new overlay item
FreshOverlay(sc) ==
    CHOOSE n \in 1..(Len(sc.overlays) + 2) :
        /\ \A i \in 1..Len(sc.overlays) : sc.overlays[i].id # n
        /\ sc.selected # <<n>>
        /\ \A m \in 1..(n - 1) :
              \/ \E i \in 1..Len(sc.overlays) : sc.overlays[i].id = m
              \/ sc.selected = <<m>>

\* add_overlay_curve(curve, label, series) on the scout given
AddOverlayCurve(sc, scout, series) ==
    LET id == FreshOverlay(sc)
        a == [sc EXCEPT !.overlays =
                 Append(sc.overlays, [id |-> id, series |-> series.uid,
                                      z |-> 10])]
        b == SelectOverlay(a, id)
        r == IF series.instances = <<>> THEN [lines |-> <<>>, raised |-> ""]
             ELSE SliceLoop(<<series.instances[1],
                              series.instances[Len(series.instances)]>>, 1,
                            scout.geometry, <<>>, Len(series.instances) = 1)
    IN  [b EXCEPT !.lines = b.lines + Len(r.lines), !.raised = r.raised]

\* the loop of add_overlay_dialog over the series from index i on
RECURSIVE AddOverlaysFrom(_, _, _, _)
AddOverlaysFrom(sc, scout, sers, i) ==
    IF i > Len(sers) \/ sc.raised # "" THEN sc
    ELSE IF IsScout(sers[i]) THEN AddOverlaysFrom(sc, scout, sers, i + 1)
    ELSE AddOverlaysFrom(AddOverlayCurve(sc, scout, sers[i]), scout, sers,
                         i + 1)

\* what the handlers of the AEC viewer leave alone
aecFrame == <<geomVars, heatVars, compVars, drawVars, gridVars, seriesVars,
              mriVars>>

SetScene(sc) ==
    /\ overlays' = sc.overlays
    /\ selected_overlay' = sc.selected
    /\ view_lines' = sc.lines
    /\ aec_raised' = sc.raised

\* open_folder
OpenFolder ==
    /\ \E studies \in Folders :
        /\ scanner' = <<studies>>
        /\ tree' = PopulateTree(studies, 1)
    /\ aec_raised' = ""
    /\ UNCHANGED <<ser_scout, ser_axial, overlays, selected_overlay,
                   view_lines, aecFrame>>

\* _on_tree_select with the item given selected
OnTreeSelectItem(item) ==
    IF item.data = None
    THEN /\ aec_raised' = "AttributeError"      \* None.is_scout()
         /\ UNCHANGED <<ser_scout, ser_axial, overlays, selected_overlay,
                        view_lines>>
    ELSE IF IsScout(item.data[1])
    THEN /\ ser_scout' = item.data
         /\ ser_axial' = None
         /\ SetScene(RemoveAllOverlays(Scene))
    ELSE /\ ser_axial' = item.data
         /\ UNCHANGED ser_scout
         /\ IF ser_scout = None
            THEN /\ aec_raised' = ""
                 /\ UNCHANGED <<overlays, selected_overlay, view_lines>>
            ELSE SetScene(AddOverlayCurve(Scene, ser_scout[1], item.data[1]))

\* the user selects an item of the tree
OnTreeSelect ==
    /\ \E i \in 1..Len(tree) :
        /\ tree[i].data # None /\ ~IsScout(tree[i].data[1]) /\ ser_scout # None
              => Len(overlays) < MaxOverlays
        /\ OnTreeSelectItem(tree[i])
    /\ UNCHANGED <<scanner, tree, aecFrame>>

\* the user clicks an overlay of the scene: new_mouse_press
ClickOverlay ==
    /\ \E i \in 1..Len(overlays) :
          SetScene(SelectOverlay(Scene, overlays[i].id))
    /\ UNCHANGED <<scanner, tree, ser_scout, ser_axial, aecFrame>>

\* add_overlay_dialog
AddOverlayDialog ==
    /\ IF ser_scout = None \/ scanner = None
       THEN /\ aec_raised' = ""
            /\ UNCHANGED <<overlays, selected_overlay, view_lines>>
       ELSE SetScene(AddOverlaysFrom(RemoveAllOverlays(Scene), ser_scout[1],
                                     AllSeries(scanner[1], 1), 1))
    /\ UNCHANGED <<scanner, tree, ser_scout, ser_axial, aecFrame>>

AecNext ==
    \/ OpenFolder
    \/ OnTreeSelect
    \/ ClickOverlay
    \/ AddOverlayDialog

----------------------------------------------------------------------------
(* The MRI SNR tool (MRIApp) *)

\* what the file dialog of load_file delivers: nothing (cancelled), a file
\* dcmread refuses, a dataset without pixel data, or a dataset with a pixel
\* array of the shape given
MriFile(chosen, readable, shape) ==
    [chosen |-> chosen, readable |-> readable, shape |-> shape]

MriFiles == { MriFile(FALSE, FALSE, None), MriFile(TRUE, FALSE, None),
              MriFile(TRUE, TRUE, None), MriFile(TRUE, TRUE, <<2, 3>>),
              MriFile(TRUE, TRUE, <<3, 2>>),
              MriFile(TRUE, TRUE, <<MaxClick, MaxClick>>) }

\* what the handlers of the MRI SNR tool leave alone
mriFrame == <<geomVars, heatVars, compVars, drawVars, gridVars, seriesVars,
              aecVars>>

\* load_file
LoadFile ==
    /\ \E f \in MriFiles :
        IF f.chosen /\ f.readable /\ f.shape # None
        THEN /\ image_data' = f.shape
             /\ click_bound' = TRUE
        ELSE UNCHANGED <<image_data, click_bound>>
    /\ UNCHANGED <<seed, region_seed, mriFrame>>

\* on_click(event), once the canvas is bound
OnClick ==
    /\ click_bound
    /\ \E x \in 0..MaxClick : \E y \in 0..MaxClick :
        IF image_data = None THEN UNCHANGED seed
        ELSE IF x >= image_data[2] \/ y >= image_data[1] THEN UNCHANGED seed
        ELSE seed' = <<y, x>>
    /\ UNCHANGED <<image_data, click_bound, region_seed, mriFrame>>

\* start_region_growing: region_growing is called with the image and the
\* seed when both are there
StartRegionGrowing ==
    /\ region_seed' = IF seed = None \/ image_data = None THEN None ELSE seed
    /\ UNCHANGED <<image_data, seed, click_bound, mriFrame>>

\* reset
Reset ==
    /\ image_data' = None
    /\ seed' = None
    /\ UNCHANGED <<click_bound, region_seed, mriFrame>>

MriNext ==
    \/ LoadFile
    \/ OnClick
    \/ StartRegionGrowing
    \/ Reset

vars == <<geomVars, heatVars, compVars, toolVars>>

\* the AEC viewer alone
SpecGeom == GeomInit /\ [][GeomNext]_vars

\* the AEC viewer's slice position lines alone
SpecLines == GeomInit /\ [][LinesNext]_vars

\* the composite builder alone
SpecComp == HeatInit /\ [][CompNext]_vars

\* the plot canvas alone
SpecDraw == HeatInit /\ [][DrawNext]_vars

\* the grid spin boxes
SpecGrid == GeomInit /\ [][GridNext]_vars

\* the series comparison tool
SpecSeries == GeomInit /\ [][SeriesNext]_vars

\* the AEC viewer
SpecAec == GeomInit /\ [][AecNext]_vars

\* the MRI SNR tool
SpecMri == GeomInit /\ [][MriNext]_vars

\* the heat map tool alone: its table and cache
SpecHeat == HeatInit /\ [][HeatNext]_vars

\* the heat map tool alone: its redraws and colour scale
SpecScale == HeatInit /\ [][ScaleNext]_vars

\* the heat map tool alone: its colour scale on data with a NaN
SpecNaN == HeatInit /\ [][NaNNext]_vars

----------------------------------------------------------------------------
(* Properties of the world-to-pixel mapping *)

RowCos(dcm) == <<dcm.ImageOrientationPatient[1], dcm.ImageOrientationPatient[2],
                 dcm.ImageOrientationPatient[3]>>

ColCos(dcm) == <<dcm.ImageOrientationPatient[4], dcm.ImageOrientationPatient[5],
                 dcm.ImageOrientationPatient[6]>>

\* two unit-length, mutually orthogonal direction cosines and non-zero spacing
ValidRaster(dcm) ==
    /\ Dot(RowCos(dcm), RowCos(dcm)) = 1
    /\ Dot(ColCos(dcm), ColCos(dcm)) = 1
    /\ Dot(RowCos(dcm), ColCos(dcm)) = 0
    /\ dcm.PixelSpacing[1][1] # 0
    /\ dcm.PixelSpacing[2][1] # 0

\* spacing contains a zero or a direction cosine is zero-length
DegenerateRaster(dcm) ==
    \/ dcm.PixelSpacing[1][1] = 0
    \/ dcm.PixelSpacing[2][1] = 0
    \/ Dot(RowCos(dcm), RowCos(dcm)) = 0
    \/ Dot(ColCos(dcm), ColCos(dcm)) = 0

\* the float q is exactly dot / spacing
IsQuotient(q, dot, spacing) ==
    /\ IsFinite(q)
    /\ q[1] * spacing[1] = dot * spacing[2] * q[2]

\* C1: on a valid raster the mapper returns (col, row) with col exactly
\* (v . column cosine) / column spacing and row exactly (v . row cosine) /
\* row spacing, v = point - origin; nothing is rounded.
C1_Projection ==
    (px_ret # None /\ ValidRaster(scout_dcm[1])) =>
        LET dcm == scout_dcm[1]
            v   == VSub(patient_pos, dcm.ImagePositionPatient)
        IN  /\ IsQuotient(px_ret[1], Dot(v, ColCos(dcm)), dcm.PixelSpacing[2])
            /\ IsQuotient(px_ret[2], Dot(v, RowCos(dcm)), dcm.PixelSpacing[1])

\* a valid raster with different row and column spacing mapped a point to a
\* column that is not a whole number
C1_Witness ==
    /\ px_ret # None
    /\ ValidRaster(scout_dcm[1])
    /\ scout_dcm[1].PixelSpacing[1] # scout_dcm[1].PixelSpacing[2]
    /\ px_ret[1][2] = 2

ScenarioRaster ==
    [ImageOrientationPatient |-> <<1, 0, 0, 0, 1, 0>>,
     ImagePositionPatient |-> <<0, 0, 0>>,
     PixelSpacing |-> <<Rat(1, 1), Rat(1, 1)>>]

\* C2: with origin (0,0,0), row cosine (1,0,0), column cosine (0,1,0) and
\* spacing (1,1), the point (5,3,0) maps to (col, row) = (5, 3).
C2_Scenario ==
    (px_ret # None /\ scout_dcm[1] = ScenarioRaster
        /\ patient_pos = <<5, 3, 0>>) =>
        px_ret = <<Rat(5, 1), Rat(3, 1)>>

\* C3: on a valid raster the raster's own origin maps to (0, 0).
C3_OriginMapsToZero ==
    (px_ret # None /\ ValidRaster(scout_dcm[1])
        /\ patient_pos = scout_dcm[1].ImagePositionPatient) =>
        px_ret = <<Rat(0, 1), Rat(0, 1)>>

\* a valid raster whose origin is not the world origin had its origin mapped
C3_Witness ==
    /\ px_ret # None
    /\ ValidRaster(scout_dcm[1])
    /\ patient_pos = scout_dcm[1].ImagePositionPatient
    /\ patient_pos # <<0, 0, 0>>

\* C4: on a raster whose spacing contains a zero or whose orientation has a
\* zero-length vector the mapper fails with an error instead of returning
\* numbers.
C4_GeometryError ==
    (patient_pos # None /\ DegenerateRaster(scout_dcm[1])) => px_raised

----------------------------------------------------------------------------
(* Properties of get_intensity_array and of the handlers around it *)

\* the array get_intensity_array computes for the table and image as they are
Fresh == Resample(CurrentData(table), current_pixmap, zoom_fails)

\* C5: with rows, cols > 0 and an image of size (w, h) loaded, the array
\* get_intensity_array returns has shape exactly (h, w), on the zoom path and
\* on the fallback path.
C5_Shape ==
    (last.ret # None /\ current_pixmap # None) =>
        Shape(last.ret) = <<current_pixmap[2], current_pixmap[1]>>

\* the fallback path resampled two columns to an image three pixels wide
C5_Witness ==
    /\ zoom_fails
    /\ last.ret # None
    /\ table.cols = 2
    /\ current_pixmap = <<3, 2>>

\* C6: a second get_intensity_array call with nothing changed in between
\* returns the cached array without a second zoom, whatever floats the cells
\* hold.
C6_SecondCallCached ==
    (ncalls = 2 /\ last.ret # None) => last.zooms = 0

\* C7: after any edits and loads the cache never holds, and
\* get_intensity_array never returns, an array of an earlier table content or
\* image size: what is cached or returned is the array of the current table
\* and size.
C7_NoStaleArray ==
    /\ cache.cached_intensity_array # None =>
        /\ table.rows > 0
        /\ table.cols > 0
        /\ ~TableRaises(table)
        /\ cache.cached_intensity_array = Fresh
    /\ last.ret # None => last.ret = Fresh

\* an edited cell, then a call that resampled the table anew
C7_Witness ==
    /\ edits = 1
    /\ current_pixmap # None
    /\ last.ret # None
    /\ last.zooms = 1

\* C8: two get_intensity_array calls on the same table content and image
\* size return the same array, element for element.
C8_Deterministic ==
    [][(last.ret # None /\ last'.ret # None /\ table' = table
            /\ current_pixmap' = current_pixmap)
        => last'.ret = last.ret]_vars

\* a second call in a row returned an array for a loaded image
C8_Witness ==
    /\ ncalls = 2
    /\ last.ret # None
    /\ current_pixmap # None
    /\ table.rows = 2

\* C9: with zero rows or zero columns get_intensity_array returns None, makes
\* no zoom call and raises nothing, with or without an image.
C9_EmptyTableGivesNone ==
    (table.rows = 0 \/ table.cols = 0) =>
        /\ ncalls >= 1
        /\ last.ret = None
        /\ last.zooms = 0
        /\ last.raised # "ValueError"
        /\ cache.cached_intensity_array = None

\* rows but no columns, an image loaded, and the call made
C9_Witness ==
    /\ table.rows > 0
    /\ table.cols = 0
    /\ current_pixmap # None
    /\ ncalls >= 1

\* C10: with zero rows or zero columns every redraw handler draws no
\* intensity overlay and returns without an exception.
C10_EmptyGridDrawsNothing ==
    (table.rows = 0 \/ table.cols = 0) =>
        /\ last.raised = ""
        /\ last.drew \in {"none", "nodata", "grid"}

\* invalidate_cache's result: all four cache fields None
ClearedCache ==
    [cached_intensity_array |-> None, last_csv_data |-> None,
     last_csv_shape |-> None, last_pixmap_size |-> None]

\* C11: every handler step that changes the table or the image leaves the
\* cache either cleared (all four fields None, a cell edit) or as the first
\* get_intensity_array call after the change leaves a cleared cache: that
\* call found nothing cached, so it returned and zoomed as from a cleared
\* cache.
C11_ChangeClearsCache ==
    [][(table' # table \/ current_pixmap' # current_pixmap) =>
        \/ cache' = ClearedCache /\ last'.ret = None /\ last'.zooms = 0
        \/ \E e \in {UpdateIntensityPreviewEnd(table', current_pixmap',
                          ClearedCache, current_vis_mode, zoom_fails)} :
               /\ cache' = e.cache
               /\ last'.ret = e.ret
               /\ last'.zooms = e.zooms]_vars

\* a cell of a table with an image loaded was edited and the cache is clear
C11_Witness ==
    /\ edits = 1
    /\ ncalls = 0
    /\ current_pixmap # None
    /\ cache = ClearedCache

----------------------------------------------------------------------------
(* Properties of composite *)

\* C12: composite with cropRect = (x, y, w, h) inside fullSize returns a
\* fullSize-shaped array whose cells outside [y:y+h, x:x+w] are all NaN and
\* whose cells inside equal the grid resampled to (h, w).
C12_CompositeCorrect ==
    (comp_args # None /\ comp_args[1].cropRect # None /\ comp_raised = "") =>
        LET a == comp_args[1]
            x == a.cropRect[1]
            y == a.cropRect[2]
            w == a.cropRect[3]
            h == a.cropRect[4]
        IN  \E field \in {Resample(a.grid, <<w, h>>, zoom_fails)} :
            /\ Shape(comp_ret) = <<a.fullSize[2], a.fullSize[1]>>
            /\ \A r \in 1..a.fullSize[2] : \A c \in 1..a.fullSize[1] :
                   IF r > y /\ r <= y + h /\ c > x /\ c <= x + w
                   THEN comp_ret[r][c] = field[r - y][c - x]
                   ELSE IsNaN(comp_ret[r][c])

\* a 2 x 2 grid placed as a 2 x 1 field at x = 1, y = 0 of a wider array
C12_Witness ==
    /\ comp_args # None
    /\ comp_raised = ""
    /\ comp_ret # None
    /\ Len(comp_args[1].grid) = 2
    /\ comp_args[1].fullSize = <<MaxFull, MaxFull - 1>>
    /\ comp_args[1].cropRect = <<1, 0, 2, 1>>

\* C13: a crop rectangle that violates 0 <= x, 0 <= y, x+w <= width or
\* y+h <= height makes composite raise BoundsError with no cell written.
C13_BoundsError ==
    (/\ comp_args # None
     /\ comp_args[1].cropRect # None
     /\ \/ comp_args[1].cropRect[1] < 0
        \/ comp_args[1].cropRect[2] < 0
        \/ comp_args[1].cropRect[1] + comp_args[1].cropRect[3]
              > comp_args[1].fullSize[1]
        \/ comp_args[1].cropRect[2] + comp_args[1].cropRect[4]
              > comp_args[1].fullSize[2]) =>
        /\ comp_raised = "BoundsError"
        /\ comp_ret = None
        /\ comp_written = 0

\* a rectangle that starts inside the array and runs over its right and
\* lower edge was refused
C13_Witness ==
    /\ comp_args # None
    /\ comp_args[1].cropRect # None
    /\ comp_args[1].cropRect[1] = MaxFull - 1
    /\ comp_args[1].cropRect[2] = MaxFull - 1
    /\ comp_args[1].cropRect[3] = MaxFull
    /\ comp_raised = "BoundsError"

----------------------------------------------------------------------------
(* Properties of the colour scale *)

\* the cells of arr that are numbers
NonNaNCells(arr) == {x \in Cells(arr) : ~IsNaN(x)}

C15_RedrawExceptionsHandled ==
    [][(\/ ShowHeatmap
        \/ ShowContours
        \/ ApplyHighlights
        \/ ApplyUnitsAndScale
        \/ ApplyCustomScale
        \/ UpdateColormapScale) => last'.raised = ""]_vars

\* C17: show_heatmap twice in a row, with the image, the table and the
\* controls unchanged, renders both times with the same vmin and vmax and
\* leaves the spin boxes after the second call as after the first
C17_ShowHeatmapIdempotent ==
    [][\A scale \in ScaleTexts :
       \A e1 \in ShowHeatmapEnd(table, current_pixmap, cache, current_vis_mode,
                                zoom_fails, scale) :
           (/\ e1.drew = "heatmap"
            /\ table' = table /\ current_pixmap' = current_pixmap
            /\ cache' = e1.cache /\ current_vis_mode' = e1.vis
            /\ spins' = e1.spins /\ last'.range = e1.range
            /\ last'.drew = e1.drew) =>
               \A e2 \in ShowHeatmapEnd(table, current_pixmap, cache,
                                        current_vis_mode, zoom_fails, scale)' :
                   /\ e2.drew = "heatmap"
                   /\ e2.range = e1.range
                   /\ e2.spins = e1.spins]_vars

----------------------------------------------------------------------------
(* Properties of the resampling *)

\* the table holds the grid [[0, 10], [20, 30]] and the image is 4 x 4
ScenarioGrid ==
    /\ table = [rows |-> 2, cols |-> 2,
                items |-> << <<"0", "10">>, <<"20", "30">> >>]
    /\ current_pixmap = <<4, 4>>

\* C18: the grid [[0, 10], [20, 30]] resampled to 4 x 4 is a 4 x 4 field
\* with field[0,0] = 0 and field[3,3] = 30 that never decreases along a row
\* or a column, and increases at every step when it was interpolated
C18_ScenarioMonotone ==
    (ScenarioGrid /\ last.ret # None) =>
        /\ Shape(last.ret) = <<4, 4>>
        /\ last.ret[1][1] = Rat(0, 1)
        /\ last.ret[4][4] = Rat(30, 1)
        /\ \A i \in 1..4 : \A j \in 1..3 :
               /\ ~RLess(last.ret[i][j + 1], last.ret[i][j])
               /\ ~RLess(last.ret[j + 1][i], last.ret[j][i])
               /\ ~zoom_fails => /\ RLess(last.ret[i][j], last.ret[i][j + 1])
                                 /\ RLess(last.ret[j][i], last.ret[j + 1][i])

C18_Witness ==
    /\ ScenarioGrid
    /\ ~zoom_fails
    /\ last.ret # None
    /\ last.ret[1][2] = Rat(10, 3)

\* C19: when zoom raised, the array returned for a table of rows x cols cells
\* and an image of target_width x target_height pixels has the shape
\* (target_height, target_width) and holds at [i][j] the cell
\* [i div rep_y][j div rep_x], rep = max(1, ceil(target / cells))
C19_FallbackReplicates ==
    (zoom_fails /\ last.ret # None /\ current_pixmap # None) =>
        LET target_height == current_pixmap[2]
            target_width  == current_pixmap[1]
            rep_y == Max(1, Ceil(Rat(target_height, table.rows)))
            rep_x == Max(1, Ceil(Rat(target_width, table.cols)))
        IN  /\ Len(last.ret) = target_height
            /\ \A i \in 0..(target_height - 1) :
                   /\ Len(last.ret[i + 1]) = target_width
                   /\ \A j \in 0..(target_width - 1) :
                          last.ret[i + 1][j + 1] =
                              CellValue(table.items[(i \div rep_y) + 1]
                                                   [(j \div rep_x) + 1])

\* two columns were replicated to three pixels: the first cell twice, then
\* the second
C19_Witness ==
    /\ zoom_fails
    /\ last.ret # None
    /\ current_pixmap = <<3, 2>>
    /\ table.cols = 2
    /\ last.ret[1][1] = last.ret[1][2]
    /\ last.ret[1][2] # last.ret[1][3]

----------------------------------------------------------------------------
(* Frame of the cache *)

\* the cache fields after get_intensity_array ran on the cache c with the
\* table and the image a step leaves
AfterGet(c) == GetIntensityArray(table', current_pixmap', c, zoom_fails).cache

\* C20: a step leaves the cache fields as they were, as invalidate_cache
\* leaves them, or as get_intensity_array leaves them; and the display and
\* style handlers (update_alpha, update_cmap, update_display,
\* show_grid_overlay, apply_formatting, save_blended_image, save_grid_image)
\* leave them as they were, update_display (and with it update_alpha and
\* update_cmap) unless get_intensity_array ran
C20_CacheFrame ==
    [][/\ cache' \in {cache, ClearedCache, AfterGet(cache),
                       AfterGet(ClearedCache)}
       /\ UpdateDisplay => cache' \in {cache, AfterGet(cache)}
       /\ (\/ ShowGridOverlay
           \/ ApplyFormatting
           \/ SaveBlendedImage
           \/ SaveGridImage) => cache' = cache]_vars

\* the grid tab was shown while the cache held an array
C20_Witness ==
    /\ last.drew = "grid"
    /\ cache.cached_intensity_array # None

----------------------------------------------------------------------------
(* Properties of the slice position lines *)

\* the datasets draw_slice_position_lines annotates: the first and the last
FirstAndLast == <<slice_series[1], slice_series[Len(slice_series)]>>

\* C16: draw_slice_position_lines adds the annotation of every first/last
\* dataset whose position maps, skips the others, and no exception leaves it
C16_SkipAndContinue ==
    slice_series # <<>> =>
        /\ slice_raised = ""
        /\ Len(slice_lines) =
               Cardinality({i \in 1..2 : Len(FirstAndLast[i]) = 3})

----------------------------------------------------------------------------
(* Properties of the cell parsing *)

\* C22: no handler ends in the ValueError of a cell that does not parse, and
\* the array read from the table (returned as it is while no image is
\* loaded) holds 0.0 for every cell that is missing, empty or not a number
C22_TolerantParse ==
    /\ last.raised # "ValueError"
    /\ (last.ret # None /\ current_pixmap = None) =>
           \A r \in 1..table.rows : \A c \in 1..table.cols :
               table.items[r][c] \notin NumTexts => last.ret[r][c] = Rat(0, 1)

----------------------------------------------------------------------------
(* Properties of the MRI SNR tool *)

\* C30: a seed that is set lies inside the image that is loaded: its row is
\* below the height and its column below the width of the image
C30_SeedInsideImage ==
    seed # None =>
        /\ image_data # None
        /\ 0 <= seed[1] /\ seed[1] < image_data[1]
        /\ 0 <= seed[2] /\ seed[2] < image_data[2]

----------------------------------------------------------------------------
(* Properties of the AEC viewer *)

\* C27: the selected overlay is None or one of the overlays, and when there
\* is one it is the only overlay with Z-value 20, all others having 10
C27_SelectedOnTop ==
    /\ selected_overlay # None =>
          \E i \in 1..Len(overlays) : overlays[i].id = selected_overlay[1]
    /\ selected_overlay # None =>
          \A i \in 1..Len(overlays) :
              overlays[i].z = IF overlays[i].id = selected_overlay[1]
                              THEN 20 ELSE 10

\* three overlays, the first of them selected by a click after the others
\* were added
C27_Witness ==
    /\ Len(overlays) = 3
    /\ selected_overlay = <<overlays[1].id>>
    /\ overlays[1].z = 20

\* the series of the scanned studies that are no scouts
NonScouts == {ser \in {AllSeries(scanner[1], 1)[i] :
                           i \in 1..Len(AllSeries(scanner[1], 1))} :
                 ~IsScout(ser)}

\* C28: with a scout and a scanner, add_overlay_dialog leaves exactly one
\* overlay for each series that is no scout and no slice line of an earlier
\* overlay; without one of them it changes nothing
C28_OneOverlayPerSeries ==
    [][AddOverlayDialog =>
         IF ser_scout = None \/ scanner = None
         THEN UNCHANGED <<scanner, tree, ser_scout, ser_axial, overlays,
                          selected_overlay, view_lines>>
         ELSE /\ Len(overlays') = Cardinality(NonScouts)
              /\ \A ser \in NonScouts :
                    Cardinality({i \in 1..Len(overlays') :
                                    overlays'[i].series = ser.uid}) = 1
              /\ view_lines' <= 2 * Len(overlays')]_vars

\* C29: selecting an item of the tree raises nothing; a series item becomes
\* ser_scout or ser_axial, any other item changes nothing
C29_TreeSelectHandled ==
    [][OnTreeSelect =>
         /\ aec_raised' = ""
         /\ \/ \E i \in 1..Len(tree) :
                  /\ tree[i].data # None
                  /\ \/ ser_scout' = tree[i].data /\ ser_axial' = None
                     \/ ser_axial' = tree[i].data /\ ser_scout' = ser_scout
            \/ UNCHANGED <<scanner, tree, ser_scout, ser_axial, overlays,
                           selected_overlay, view_lines>>]_vars

----------------------------------------------------------------------------
(* Properties of the series comparison tool *)

\* C25: whenever a series is loaded, its current slice index is a valid
\* index into it
C25_SliceInRange ==
    /\ dicom_series1 # <<>> =>
          0 <= current_slice1 /\ current_slice1 < Len(dicom_series1)
    /\ dicom_series2 # <<>> =>
          0 <= current_slice2 /\ current_slice2 < Len(dicom_series2)

\* both series loaded, the second shorter than the first, each shown at its
\* last slice
C25_Witness ==
    /\ Len(dicom_series1) = 3
    /\ Len(dicom_series2) = 2
    /\ current_slice1 = 2
    /\ current_slice2 = 1

\* C26: analyze with a series missing changes nothing, analyze with both
\* series loaded appends one row for series 1 and one for series 2 after the
\* rows there were, and no other handler touches the measurements
C26_AppendOnly ==
    [][/\ (Analyze /\ (dicom_series1 = <<>> \/ dicom_series2 = <<>>)) =>
             UNCHANGED <<dicom_series1, dicom_series2, series_label1,
                         series_label2, current_slice1, current_slice2,
                         slider1, slider2, measurements>>
       /\ (Analyze /\ dicom_series1 # <<>> /\ dicom_series2 # <<>>) =>
             /\ Len(measurements') = Len(measurements) + 2
             /\ SubSeq(measurements', 1, Len(measurements)) = measurements
             /\ measurements'[Len(measurements) + 1][1] = series_label1
             /\ measurements'[Len(measurements) + 1][2] = current_slice1
             /\ measurements'[Len(measurements) + 2][1] = series_label2
             /\ measurements'[Len(measurements) + 2][2] = current_slice2
       /\ (LoadDicomSeries \/ MoveSlider1 \/ MoveSlider2) =>
             measurements' = measurements]_vars

----------------------------------------------------------------------------
(* Properties of the visualization mode *)

\* C24: when show_heatmap has drawn the heat map the mode is "heatmap", and
\* when show_contours has drawn the contours the mode is "contour", so that
\* the later redraws follow the overlay requested last
C24_ModeFollowsRequest ==
    [][/\ (ShowHeatmap /\ last'.drew = "heatmap") =>
             current_vis_mode' = "heatmap"
       /\ (ShowContours /\ last'.drew = "contour") =>
             current_vis_mode' = "contour"]_vars

----------------------------------------------------------------------------
(* Properties of the grid spin boxes *)

\* C23: when a handler has called set_grid_spinboxes_from_data, the Columns
\* spin box holds the column count and the Rows spin box the row count of
\* the table if both counts are positive, and both hold 100 otherwise
C23_SpinsFollowShape ==
    [][GridHandler =>
         IF grid_shape'.rows > 0 /\ grid_shape'.cols > 0
         THEN grid_nx_spin' = grid_shape'.cols /\ grid_ny_spin' = grid_shape'.rows
         ELSE grid_nx_spin' = 100 /\ grid_ny_spin' = 100]_vars

----------------------------------------------------------------------------
(* Properties of the plot canvas *)

\* C21: draw_heatmap and draw_contours put the base image and the intensity
\* overlay on the same rectangle [-W/2, W/2] x [-H/2, H/2], W = width *
\* scale_x and H = height * scale_y, and the axis limits span that rectangle
C21_SameRectangle ==
    canvas # None =>
        LET c == canvas[1]
            W == RMul(Rat(c.width, 1), c.scale_x)
            H == RMul(Rat(c.height, 1), c.scale_y)
            rect == <<NegHalf(W), Half(W), NegHalf(H), Half(H)>>
        IN  /\ c.base = rect
            /\ c.overlay = rect
            /\ c.xlim = <<NegHalf(W), Half(W)>>
            /\ {c.ylim[1], c.ylim[2]} = {NegHalf(H), Half(H)}

====
